---- MODULE Spec2Model ----
(***************************************************************************)
(* Model of dev/src/generators/template_engine.py: the template           *)
(* placeholder engine (context normalisation, conditional regions,        *)
(* placeholder resolution, value formatting, validation), and of          *)
(* dev/src/interview/interview_engine.py: the five-phase interview.       *)
(*                                                                         *)
(* Strings are TLA+ strings handled character by character (Len, SubSeq   *)
(* and \o), so the regular expressions of the source are modelled on the  *)
(* characters they read.  Python values are records tagged by type, each *)
(* type with its own field, so that values of two types compare unequal. *)
(***************************************************************************)
EXTENDS Integers, Sequences, FiniteSets, TLC

VARIABLES call, template, context, value, pc,
          normalized, renormalized, conditioned, rendered, warnings,
          complete, vtc, formatted, aliased, threads, engine

vars == <<call, template, context, value, pc,
          normalized, renormalized, conditioned, rendered, warnings,
          complete, vtc, formatted, aliased, threads, engine>>

(***************************************************************************)
(* Python values                                                           *)
(***************************************************************************)
None == [t |-> "none"]
Str(s) == [t |-> "str", s |-> s]
IntV(n) == [t |-> "int", n |-> n]
List(l) == [t |-> "list", l |-> l]
\* a dict keeps insertion order: a sequence of <<key, value>> pairs
Dict(d) == [t |-> "dict", d |-> d]

IsStr(x) == x.t = "str"
IsList(x) == x.t = "list"
IsDict(x) == x.t = "dict"

\* bool(x)
Truthy(x) ==
    CASE x.t = "none" -> FALSE
      [] x.t = "str" -> x.s # ""
      [] x.t = "int" -> x.n # 0
      [] x.t = "list" -> x.l # <<>>
      [] x.t = "dict" -> x.d # <<>>

DictHas(d, k) == \E i \in 1..Len(d.d) : d.d[i][1] = k
DictGet(d, k) == d.d[CHOOSE i \in 1..Len(d.d) : d.d[i][1] = k][2]

(***************************************************************************)
(* Characters and strings                                                  *)
(***************************************************************************)
Ch(s, i) == SubSeq(s, i, i)

Uppers == "ABCDEFGHIJKLMNOPQRSTUVWXYZ"
Lowers == "abcdefghijklmnopqrstuvwxyz"
Digits == "0123456789"

UpperSet == {Ch(Uppers, i) : i \in 1..Len(Uppers)}
LowerSet == {Ch(Lowers, i) : i \in 1..Len(Lowers)}
DigitSet == {Ch(Digits, i) : i \in 1..Len(Digits)}

\* \w of the regular expressions
WordChars == UpperSet \cup LowerSet \cup DigitSet \cup {"_"}
\* \s of the regular expressions
SpaceChars == {" ", "\n", "\t"}

LowerCh(c) ==
    IF c \in UpperSet
    THEN Ch(Lowers, CHOOSE i \in 1..Len(Uppers) : Ch(Uppers, i) = c)
    ELSE c

UpperCh(c) ==
    IF c \in LowerSet
    THEN Ch(Uppers, CHOOSE i \in 1..Len(Lowers) : Ch(Lowers, i) = c)
    ELSE c

RECURSIVE LowerFrom(_, _)
LowerFrom(s, i) ==
    IF i > Len(s) THEN "" ELSE LowerCh(Ch(s, i)) \o LowerFrom(s, i + 1)

\* str.lower()
Lower(s) == LowerFrom(s, 1)

\* str.capitalize()
Capitalize(s) == IF s = "" THEN "" ELSE UpperCh(Ch(s, 1)) \o LowerFrom(s, 2)

\* str.startswith(prefix), also a literal of a pattern matching at i
MatchAt(s, i, lit) ==
    /\ i >= 1
    /\ i + Len(lit) - 1 <= Len(s)
    /\ SubSeq(s, i, i + Len(lit) - 1) = lit

StartsWith(s, prefix) == MatchAt(s, 1, prefix)

\* needle in s
Contains(s, needle) == \E i \in 1..(Len(s) + 1) : MatchAt(s, i, needle)

HasUnderscore(s) == Contains(s, "_")

\* str.strip() = ""
IsBlank(s) == \A i \in 1..Len(s) : Ch(s, i) \in SpaceChars

RECURSIVE Join(_, _)
\* sep.join(items), items a sequence of strings
Join(sep, items) ==
    IF items = <<>> THEN ""
    ELSE IF Len(items) = 1 THEN items[1]
    ELSE items[1] \o sep \o Join(sep, Tail(items))

RECURSIVE IntToStr(_)
\* str(n) of a natural number
IntToStr(n) ==
    IF n < 10 THEN Ch(Digits, n + 1)
    ELSE IntToStr(n \div 10) \o Ch(Digits, (n % 10) + 1)

RECURSIVE PyStr(_)
\* str(x); inside a list the elements are shown by repr
PyStr(x) ==
    CASE x.t = "none" -> "None"
      [] x.t = "str" -> x.s
      [] x.t = "int" -> IntToStr(x.n)
      [] x.t = "list" ->
            "[" \o Join(", ", [i \in 1..Len(x.l) |->
                      IF IsStr(x.l[i]) THEN "'" \o x.l[i].s \o "'"
                      ELSE PyStr(x.l[i])]) \o "]"
      [] x.t = "dict" ->
            "{" \o Join(", ", [i \in 1..Len(x.d) |->
                      "'" \o x.d[i][1] \o "': " \o
                      (IF IsStr(x.d[i][2]) THEN "'" \o x.d[i][2].s \o "'"
                       ELSE PyStr(x.d[i][2]))]) \o "}"

(***************************************************************************)
(* format_value                                                            *)
(***************************************************************************)
\* the number of list items shown before ", and N more"
ListShown == 3

\* format_value with the boundary of the list rule off by one
format_value_early_cut(x) ==
    CASE x.t = "none" -> ""
      [] x.t = "str" -> IF IsBlank(x.s) THEN "" ELSE x.s
      [] x.t = "list" ->
            IF x.l = <<>> THEN "None"
            ELSE LET formatted_items == [i \in 1..Len(x.l) |-> PyStr(x.l[i])]
                 IN  IF Len(formatted_items) < ListShown
                     THEN Join(", ", formatted_items)
                     ELSE Join(", ", SubSeq(formatted_items, 1, ListShown))
                          \o ", and " \o IntToStr(Len(formatted_items) - ListShown)
                          \o " more"
      [] x.t = "dict" ->
            IF x.d = <<>> THEN "None"
            ELSE Join("; ", [i \in 1..Len(x.d) |->
                        x.d[i][1] \o ": " \o PyStr(x.d[i][2])])
      [] OTHER -> PyStr(x)

format_value(x) ==
    CASE x.t = "none" -> ""
      [] x.t = "str" -> IF IsBlank(x.s) THEN "" ELSE x.s
      [] x.t = "list" ->
            IF x.l = <<>> THEN "None"
            ELSE LET formatted_items == [i \in 1..Len(x.l) |-> PyStr(x.l[i])]
                 IN  IF Len(formatted_items) <= ListShown
                     THEN Join(", ", formatted_items)
                     ELSE Join(", ", SubSeq(formatted_items, 1, ListShown))
                          \o ", and " \o IntToStr(Len(formatted_items) - ListShown)
                          \o " more"
      [] x.t = "dict" ->
            IF x.d = <<>> THEN "None"
            ELSE Join("; ", [i \in 1..Len(x.d) |->
                        x.d[i][1] \o ": " \o PyStr(x.d[i][2])])
      [] OTHER -> PyStr(x)

(***************************************************************************)
(* normalize_context                                                       *)
(***************************************************************************)
\* a context is a function from its keys to Python values
EmptyContext == [k \in {} |-> None]

Has(ctx, k) == k \in DOMAIN ctx

\* dict.get(k, dflt)
Get(ctx, k, dflt) == IF Has(ctx, k) THEN ctx[k] ELSE dflt

Set(ctx, k, x) == [j \in DOMAIN ctx \cup {k} |-> IF j = k THEN x ELSE ctx[j]]

\* the outcome of a call that raised an exception
RaisedKey == "!raised"
Raised == [k \in {RaisedKey} |-> Str("exception")]
IsRaised(ctx) == Has(ctx, RaisedKey)

defaults ==
    [ project_name |-> Str("Project"),
      project_type |-> Str("unknown"),
      primary_language |-> Str("unknown"),
      framework |-> Str("unknown"),
      frameworks |-> List(<<>>),
      technologies |-> Str("Unknown"),
      architecture |-> Str("unknown"),
      deployment_type |-> Str("unknown"),
      coding_standards |-> Str("unknown"),
      file_organization |-> Str("standard"),
      testing_framework |-> Str("unknown"),
      services |-> List(<<>>),
      ports |-> List(<<>>),
      databases |-> List(<<>>),
      networking |-> Dict(<<>>),
      project_description |-> Str(""),
      project_purpose |-> Str(""),
      key_concepts |-> List(<<>>),
      documentation_sources |-> List(<<>>),
      containerization |-> List(<<>>),
      orchestration |-> List(<<>>),
      cloud_platforms |-> List(<<>>),
      linting_tools |-> List(<<>>),
      formatting_tools |-> List(<<>>),
      build_tools |-> List(<<>>) ]

\* ApplyDefaults without the test for None
ApplyDefaultsMissingOnly(ctx) ==
    [k \in DOMAIN ctx \cup DOMAIN defaults |->
        IF k \in DOMAIN defaults /\ ~Has(ctx, k) THEN defaults[k] ELSE ctx[k]]

\* lines 71-73: a default for every key that is missing or None
ApplyDefaults(ctx) ==
    [k \in DOMAIN ctx \cup DOMAIN defaults |->
        IF k \in DOMAIN defaults /\ (~Has(ctx, k) \/ ctx[k] = None)
        THEN defaults[k]
        ELSE ctx[k]]

\* "for e in x": the elements Python iterates over; an int or None is not iterable
Iterable(x) == x.t \in {"list", "str", "dict"}
Elements(x) ==
    CASE x.t = "list" -> x.l
      [] x.t = "str" -> [i \in 1..Len(x.s) |-> Str(Ch(x.s, i))]
      [] x.t = "dict" -> [i \in 1..Len(x.d) |-> Str(x.d[i][1])]

AllStr(seq) == \A i \in 1..Len(seq) : IsStr(seq[i])

\* format_framework without the two special names
format_framework_plain(fw) == Capitalize(fw)

\* lines 86-92
format_framework(fw) ==
    IF fw = "nextjs" THEN "Next.js"
    ELSE IF fw = "nestjs" THEN "NestJS"
    ELSE Capitalize(fw)

\* lines 77-94: the technologies string derived from languages and frameworks
DeriveTechnologies(n) ==
    IF ~(~Has(n, "technologies") \/ n["technologies"] = Str("Unknown")) THEN n
    ELSE
    LET frameworks == Get(n, "frameworks", List(<<>>))
        languages == Get(n, "languages", List(<<>>))
    IN  IF ~(Truthy(frameworks) \/ Truthy(languages)) THEN n
        ELSE IF \/ Truthy(languages) /\ ~Iterable(languages)
                \/ Truthy(languages) /\ ~AllStr(Elements(languages))
                \/ Truthy(frameworks) /\ ~Iterable(frameworks)
                \/ Truthy(frameworks) /\ ~AllStr(Elements(frameworks))
        THEN Raised
        ELSE
        LET langs == IF Truthy(languages) THEN Elements(languages) ELSE <<>>
            fws == IF Truthy(frameworks) THEN Elements(frameworks) ELSE <<>>
            tech_parts ==
                [i \in 1..Len(langs) |-> Capitalize(langs[i].s)] \o
                [i \in 1..Len(fws) |-> format_framework(fws[i].s)]
        IN  Set(n, "technologies",
                Str(IF tech_parts # <<>> THEN Join(", ", tech_parts) ELSE "Unknown"))

\* CollapseNetworking without the type test: a string is labelled again
CollapseNetworkingAnyType(n) ==
    IF IsRaised(n) \/ ~Has(n, "networking") THEN n
    ELSE IF IsStr(n["networking"]) /\ Truthy(n["networking"])
    THEN Set(n, "networking", Str("Networks: " \o n["networking"].s))
    ELSE n

\* CollapseNetworking with the parts in the order of the dict given instead of
\* the fixed order of lines 101-106
CollapseNetworkingDictOrder(n) ==
    IF IsRaised(n) \/ ~(Has(n, "networking") /\ IsDict(n["networking"])) THEN n
    ELSE LET networking == n["networking"]
             label(k) == CASE k = "ports" -> "Ports: "
                           [] k = "networks" -> "Networks: "
                           [] k = "reverse_proxy" -> "Reverse Proxy: "
                           [] OTHER -> ""
             shown(i) ==
                 LET k == networking.d[i][1]
                     x == networking.d[i][2]
                 IN  IF label(k) = "" \/ (k # "reverse_proxy" /\ ~Truthy(x)) THEN <<>>
                     ELSE IF IsList(x)
                     THEN <<label(k) \o Join(", ", [j \in 1..Len(x.l) |-> PyStr(x.l[j])])>>
                     ELSE <<label(k) \o PyStr(x)>>
             RECURSIVE Flat(_)
             Flat(i) == IF i > Len(networking.d) THEN <<>> ELSE shown(i) \o Flat(i + 1)
         IN  IF ~Truthy(networking) THEN n
             ELSE Set(n, "networking",
                      Str(IF Flat(1) # <<>> THEN Join("; ", Flat(1)) ELSE "None"))

\* CollapseNetworking that turns the empty dict into "None" as well
CollapseNetworkingEmpty(n) ==
    IF IsRaised(n) \/ ~Has(n, "networking") THEN n
    ELSE IF n["networking"] = Dict(<<>>) THEN Set(n, "networking", Str("None"))
    ELSE n

\* lines 97-107: a networking dict collapsed to a string
CollapseNetworking(n) ==
    IF IsRaised(n) THEN n
    ELSE IF ~(Has(n, "networking") /\ IsDict(n["networking"])) THEN n
    ELSE
    LET networking == n["networking"]
        has_ports == DictHas(networking, "ports") /\ Truthy(DictGet(networking, "ports"))
        has_networks ==
            DictHas(networking, "networks") /\ Truthy(DictGet(networking, "networks"))
        has_proxy == DictHas(networking, "reverse_proxy")
    IN  IF ~Truthy(networking) THEN n
        ELSE IF \/ has_ports /\ ~Iterable(DictGet(networking, "ports"))
                \/ has_networks /\ ~Iterable(DictGet(networking, "networks"))
                \/ has_networks /\ ~AllStr(Elements(DictGet(networking, "networks")))
        THEN Raised
        ELSE
        LET ports == Elements(DictGet(networking, "ports"))
            networks == Elements(DictGet(networking, "networks"))
            parts ==
                (IF has_ports
                 THEN <<"Ports: " \o Join(", ", [i \in 1..Len(ports) |-> PyStr(ports[i])])>>
                 ELSE <<>>) \o
                (IF has_networks
                 THEN <<"Networks: " \o
                        Join(", ", [i \in 1..Len(networks) |-> networks[i].s])>>
                 ELSE <<>>) \o
                (IF has_proxy
                 THEN <<"Reverse Proxy: " \o PyStr(DictGet(networking, "reverse_proxy"))>>
                 ELSE <<>>)
        IN  Set(n, "networking", Str(IF parts # <<>> THEN Join("; ", parts) ELSE "None"))

normalize_context(ctx) ==
    IF IsRaised(ctx) THEN ctx
    ELSE CollapseNetworking(DeriveTechnologies(ApplyDefaults(ctx)))

\* normalized = context: the local name bound to the argument object itself
no_copy(ctx) == [items |-> ctx, is_argument |-> TRUE]

\* line 39: context.copy(), a new dict object that holds the items of ctx
copy(ctx) == [items |-> ctx, is_argument |-> FALSE]

\* lines 39-109 as the caller sees them: the mapping returned, whether it is
\* the argument object, and the items of the argument object after the call
\* (every assignment of the function is an item assignment on normalized)
normalize_call(ctx) ==
    LET normalized_object == copy(ctx)
        result == normalize_context(normalized_object.items)
    IN  [result |-> result,
         is_argument |-> normalized_object.is_argument,
         argument |-> IF normalized_object.is_argument THEN result ELSE ctx]

(***************************************************************************)
(* get_placeholder_mapping                                                 *)
(***************************************************************************)
get_placeholder_mapping ==
    [ PROJECT_NAME |-> "project_name",
      PRIMARY_LANGUAGE |-> "primary_language",
      PROJECT_TYPE |-> "project_type",
      CODING_STANDARDS |-> "coding_standards",
      FILE_ORGANIZATION |-> "file_organization",
      TESTING_FRAMEWORK |-> "testing_framework",
      ARCHITECTURE |-> "architecture",
      DEPLOYMENT_TYPE |-> "deployment_type",
      NETWORKING |-> "networking",
      TECHNOLOGIES |-> "technologies",
      SERVICES |-> "services",
      PORTS |-> "ports",
      DATABASE |-> "databases",
      FRAMEWORK |-> "framework",
      FRAMEWORKS |-> "frameworks",
      LANGUAGES |-> "languages",
      PROJECT_DESCRIPTION |-> "project_description",
      PROJECT_PURPOSE |-> "project_purpose",
      KEY_CONCEPTS |-> "key_concepts",
      DOCUMENTATION_SOURCES |-> "documentation_sources",
      LINTING_TOOLS |-> "linting_tools",
      FORMATTING_TOOLS |-> "formatting_tools",
      CONTAINERIZATION |-> "containerization",
      ORCHESTRATION |-> "orchestration",
      CLOUD_PLATFORMS |-> "cloud_platforms",
      BUILD_TOOLS |-> "build_tools" ]

(***************************************************************************)
(* The regular expressions, matched at a position of a string              *)
(***************************************************************************)
PlaceholderOpen == "<PLACEHOLDER:"

RECURSIVE SkipSpaces(_, _)
\* \s*: the first position at or after i that holds no white space
SkipSpaces(s, i) ==
    IF i <= Len(s) /\ Ch(s, i) \in SpaceChars THEN SkipSpaces(s, i + 1) ELSE i

RECURSIVE SkipWord(_, _)
\* \w*: the first position at or after i that holds no word character
SkipWord(s, i) ==
    IF i <= Len(s) /\ Ch(s, i) \in WordChars THEN SkipWord(s, i + 1) ELSE i

NoMatch == [ok |-> FALSE]

\* <PLACEHOLDER:\s*(\w+)> at i: the name and the position of ">"
PlaceholderAt(s, i) ==
    IF ~MatchAt(s, i, PlaceholderOpen) THEN NoMatch
    ELSE LET j == SkipSpaces(s, i + Len(PlaceholderOpen))
             k == SkipWord(s, j)
         IN  IF k > j /\ MatchAt(s, k, ">")
             THEN [ok |-> TRUE, name |-> SubSeq(s, j, k - 1), end |-> k]
             ELSE NoMatch

\* <PLACEHOLDER:\s*IF_(\w+)> at i: group 1 and the position of ">"
IfAt(s, i) ==
    IF ~MatchAt(s, i, PlaceholderOpen) THEN NoMatch
    ELSE LET j == SkipSpaces(s, i + Len(PlaceholderOpen))
             k == SkipWord(s, j + 3)
         IN  IF MatchAt(s, j, "IF_") /\ k > j + 3 /\ MatchAt(s, k, ">")
             THEN [ok |-> TRUE, name |-> SubSeq(s, j + 3, k - 1), end |-> k]
             ELSE NoMatch

\* <PLACEHOLDER:\s*ENDIF_\1> at i, \1 being name: the position of ">", or 0
EndifAt(s, i, name) ==
    IF ~MatchAt(s, i, PlaceholderOpen) THEN 0
    ELSE LET j == SkipSpaces(s, i + Len(PlaceholderOpen))
             lit == "ENDIF_" \o name \o ">"
         IN  IF MatchAt(s, j, lit) THEN j + Len(lit) - 1 ELSE 0

\* the least element of a non-empty set of positions, 0 for the empty set
First(S) == IF S = {} THEN 0 ELSE CHOOSE j \in S : \A k \in S : j <= k

\* the positions at or after i where a token may start
Opens(s, i) == {j \in i..Len(s) : Ch(s, j) = "<"}

\* (.*?) followed by the closing token: the first position at or after i
\* where the closing token of name starts, or 0
FindEndif(s, i, name) == First({j \in Opens(s, i) : EndifAt(s, j, name) # 0})

\* conditional_pattern with (.*) in place of (.*?): the body runs up to the
\* last closing token of the name
ConditionalAtGreedy(s, i) ==
    LET open == IfAt(s, i)
    IN  IF ~open.ok THEN NoMatch
        ELSE LET closes == {j \in Opens(s, open.end + 1) : EndifAt(s, j, open.name) # 0}
                 e == IF closes = {} THEN 0
                      ELSE CHOOSE j \in closes : \A k \in closes : k <= j
             IN  IF e = 0 THEN NoMatch
                 ELSE [ok |-> TRUE, name |-> open.name,
                       content |-> SubSeq(s, open.end + 1, e - 1),
                       end |-> EndifAt(s, e, open.name)]

\* conditional_pattern at i: group 1, group 2 and the last position matched
ConditionalAt(s, i) ==
    LET open == IfAt(s, i)
    IN  IF ~open.ok THEN NoMatch
        ELSE LET e == FindEndif(s, open.end + 1, open.name)
             IN  IF e = 0 THEN NoMatch
                 ELSE [ok |-> TRUE, name |-> open.name,
                       content |-> SubSeq(s, open.end + 1, e - 1),
                       end |-> EndifAt(s, e, open.name)]

(***************************************************************************)
(* process_conditional_placeholders                                        *)
(***************************************************************************)
\* Mentions without the lowering of str(x)
MentionsCaseSensitive(x, word) == Truthy(x) /\ Contains(PyStr(x), word)

\* does str(x).lower() contain the word, x being non-empty
Mentions(x, word) == Truthy(x) /\ Contains(Lower(PyStr(x)), word)

\* lines 172-255: the chain of tests of process_conditional
ConditionMet(condition, n) ==
    CASE condition = "python" -> Get(n, "primary_language", None) = Str("python")
      [] condition = "javascript" ->
            Get(n, "primary_language", Str("")) \in {Str("javascript"), Str("typescript")}
      [] condition = "go" -> Get(n, "primary_language", None) = Str("go")
      [] condition = "rust" -> Get(n, "primary_language", None) = Str("rust")
      [] condition = "fastapi" -> Get(n, "framework", None) = Str("fastapi")
      [] condition = "django" -> Get(n, "framework", None) = Str("django")
      [] condition = "flask" -> Get(n, "framework", None) = Str("flask")
      [] condition = "react" -> Get(n, "framework", None) = Str("react")
      [] condition = "nextjs" -> Get(n, "framework", None) = Str("nextjs")
      [] condition = "express" -> Get(n, "framework", None) = Str("express")
      [] condition = "nestjs" -> Get(n, "framework", None) = Str("nestjs")
      [] condition = "microservices" -> Get(n, "project_type", None) = Str("microservices")
      [] condition = "monorepo" -> Get(n, "project_type", None) = Str("monorepo")
      [] condition = "spa" -> Get(n, "project_type", None) = Str("spa")
      [] condition = "api" -> Get(n, "project_type", None) = Str("api")
      [] condition = "full_stack" -> Get(n, "project_type", None) = Str("full_stack")
      [] condition = "cli" -> Get(n, "project_type", None) = Str("cli")
      [] condition = "docker" -> Mentions(Get(n, "containerization", List(<<>>)), "docker")
      [] condition = "kubernetes" ->
            Mentions(Get(n, "orchestration", List(<<>>)), "kubernetes")
      [] condition = "aws" -> Mentions(Get(n, "cloud_platforms", List(<<>>)), "aws")
      [] condition = "azure" -> Mentions(Get(n, "cloud_platforms", List(<<>>)), "azure")
      [] condition = "gcp" -> Mentions(Get(n, "cloud_platforms", List(<<>>)), "gcp")
      [] condition = "vercel" -> Mentions(Get(n, "cloud_platforms", List(<<>>)), "vercel")
      [] condition = "netlify" -> Mentions(Get(n, "cloud_platforms", List(<<>>)), "netlify")
      [] condition = "heroku" -> Mentions(Get(n, "cloud_platforms", List(<<>>)), "heroku")
      [] OTHER -> FALSE

\* process_conditional without the lowering of the condition name
process_conditional_case_sensitive(name, content, n) ==
    IF ConditionMet(name, n) THEN content ELSE ""

\* process_conditional falling back on a context key named like the condition
process_conditional_open(name, content, n) ==
    IF ConditionMet(Lower(name), n) \/ Has(n, Lower(name)) THEN content ELSE ""

\* process_conditional that drops a body not met only up to its first token
process_conditional_keeps_tokens(name, content, n) ==
    IF ConditionMet(Lower(name), n) THEN content
    ELSE IF Opens(content, 1) = {} THEN ""
    ELSE SubSeq(content, First(Opens(content, 1)), Len(content))

\* lines 167-258
process_conditional(name, content, n) ==
    IF ConditionMet(Lower(name), n) THEN content ELSE ""

\* process_simple_conditional that leaves the marker of a condition not met
process_simple_conditional_evaluated(name, n) ==
    IF ConditionMet(Lower(name), n) THEN "" ELSE PlaceholderOpen \o " IF_" \o name \o ">"

\* lines 265-338: every branch returns the empty string
process_simple_conditional(name, n) ==
    IF ConditionMet(Lower(name), n) THEN "" ELSE ""

\* re.sub with count = 1: only the leftmost region is replaced
SubConditionalOnce(s, i, n) ==
    LET j == First({k \in Opens(s, i) : ConditionalAt(s, k).ok})
    IN  IF j = 0 THEN SubSeq(s, i, Len(s))
        ELSE LET m == ConditionalAt(s, j)
             IN  SubSeq(s, i, j - 1) \o process_conditional(m.name, m.content, n)
                 \o SubSeq(s, m.end + 1, Len(s))

RECURSIVE SubConditional(_, _, _)
\* line 260: re.sub(conditional_pattern, process_conditional, s) from i on:
\* the leftmost match is replaced and the scan goes on behind it
SubConditional(s, i, n) ==
    LET j == First({k \in Opens(s, i) : ConditionalAt(s, k).ok})
    IN  IF j = 0 THEN SubSeq(s, i, Len(s))
        ELSE LET m == ConditionalAt(s, j)
             IN  SubSeq(s, i, j - 1) \o process_conditional(m.name, m.content, n)
                 \o SubConditional(s, m.end + 1, n)

\* re.sub with count = 1: only the leftmost marker is replaced
SubSimpleOnce(s, i, n) ==
    LET j == First({k \in Opens(s, i) : IfAt(s, k).ok})
    IN  IF j = 0 THEN SubSeq(s, i, Len(s))
        ELSE LET m == IfAt(s, j)
             IN  SubSeq(s, i, j - 1) \o process_simple_conditional(m.name, n)
                 \o SubSeq(s, m.end + 1, Len(s))

RECURSIVE SubSimple(_, _, _)
\* line 340: re.sub(simple_conditional_pattern, process_simple_conditional, s)
SubSimple(s, i, n) ==
    LET j == First({k \in Opens(s, i) : IfAt(s, k).ok})
    IN  IF j = 0 THEN SubSeq(s, i, Len(s))
        ELSE LET m == IfAt(s, j)
             IN  SubSeq(s, i, j - 1) \o process_simple_conditional(m.name, n)
                 \o SubSimple(s, m.end + 1, n)

process_conditional_placeholders(tpl, ctx) ==
    LET normalized_context == normalize_context(ctx)
    IN  SubSimple(SubConditional(tpl, 1, normalized_context), 1, normalized_context)

(***************************************************************************)
(* replace_placeholders                                                    *)
(***************************************************************************)
RECURSIVE SkipUpper(_, _)
SkipUpper(s, i) ==
    IF i <= Len(s) /\ Ch(s, i) \in UpperSet THEN SkipUpper(s, i + 1) ELSE i

RECURSIVE SkipLower(_, _)
SkipLower(s, i) ==
    IF i <= Len(s) /\ Ch(s, i) \in LowerSet THEN SkipLower(s, i + 1) ELSE i

RECURSIVE CamelWords(_, _)
\* re.findall(r'[A-Z]?[a-z]+|[A-Z]+(?=[A-Z]|$)', s) from i on
CamelWords(s, i) ==
    IF i > Len(s) THEN <<>>
    ELSE IF Ch(s, i) \in LowerSet
    THEN <<SubSeq(s, i, SkipLower(s, i) - 1)>> \o CamelWords(s, SkipLower(s, i))
    ELSE IF Ch(s, i) \in UpperSet /\ i < Len(s) /\ Ch(s, i + 1) \in LowerSet
    THEN <<SubSeq(s, i, SkipLower(s, i + 1) - 1)>> \o CamelWords(s, SkipLower(s, i + 1))
    ELSE IF Ch(s, i) \in UpperSet
    THEN LET e == SkipUpper(s, i)
         IN  IF e > Len(s) THEN <<SubSeq(s, i, e - 1)>>
             ELSE IF e - i >= 2
             THEN <<SubSeq(s, i, e - 2)>> \o CamelWords(s, e - 1)
             ELSE CamelWords(s, i + 1)
    ELSE CamelWords(s, i + 1)

\* lines 395, 505: the name split at camelCase boundaries, joined by "_"
SnakeKey(var_name) == Lower(Join("_", CamelWords(var_name, 1)))

RECURSIVE SplitUnderscore(_, _, _)
\* s.split('_'): from is the start of the current word, i the position read
SplitUnderscore(s, from, i) ==
    IF i > Len(s) THEN <<SubSeq(s, from, Len(s))>>
    ELSE IF Ch(s, i) = "_"
    THEN <<SubSeq(s, from, i - 1)>> \o SplitUnderscore(s, i + 1, i + 1)
    ELSE SplitUnderscore(s, from, i + 1)

\* line 402
CamelKey(context_key) ==
    LET words == SplitUnderscore(context_key, 1, 1)
    IN  Join("", [i \in 1..Len(words) |->
                    IF i > 1 THEN Capitalize(words[i]) ELSE words[i]])

Found(text) == [out |-> text, warned |-> <<>>]

\* replace_match trying the lowercased name before the alias table
replace_match_lower_first(var_name, n) ==
    LET placeholder_map == get_placeholder_mapping
        lower_key == Lower(var_name)
        snake_key == IF ~HasUnderscore(lower_key) THEN SnakeKey(var_name) ELSE lower_key
    IN  IF StartsWith(var_name, "IF_") \/ StartsWith(var_name, "ENDIF_")
        THEN Found("")
        ELSE IF Has(n, lower_key)
        THEN Found(format_value(n[lower_key]))
        ELSE IF var_name \in DOMAIN placeholder_map /\ Has(n, placeholder_map[var_name])
        THEN Found(format_value(n[placeholder_map[var_name]]))
        ELSE IF ~HasUnderscore(lower_key) /\ Has(n, snake_key)
        THEN Found(format_value(n[snake_key]))
        ELSE IF HasUnderscore(snake_key) /\ Has(n, CamelKey(snake_key))
        THEN Found(format_value(n[CamelKey(snake_key)]))
        ELSE [out |-> "", warned |-> <<var_name>>]

\* replace_match leaving an unresolved token in place
replace_match_keep_token(var_name, n) ==
    LET placeholder_map == get_placeholder_mapping
        lower_key == Lower(var_name)
        snake_key == IF ~HasUnderscore(lower_key) THEN SnakeKey(var_name) ELSE lower_key
    IN  IF StartsWith(var_name, "IF_") \/ StartsWith(var_name, "ENDIF_")
        THEN Found("")
        ELSE IF var_name \in DOMAIN placeholder_map /\ Has(n, placeholder_map[var_name])
        THEN Found(format_value(n[placeholder_map[var_name]]))
        ELSE IF Has(n, lower_key)
        THEN Found(format_value(n[lower_key]))
        ELSE IF ~HasUnderscore(lower_key) /\ Has(n, snake_key)
        THEN Found(format_value(n[snake_key]))
        ELSE IF HasUnderscore(snake_key) /\ Has(n, CamelKey(snake_key))
        THEN Found(format_value(n[CamelKey(snake_key)]))
        ELSE [out |-> "<PLACEHOLDER: " \o var_name \o ">", warned |-> <<var_name>>]

\* replace_match without the skip of conditional names (lines 374-375)
replace_match_no_skip(var_name, n) ==
    LET placeholder_map == get_placeholder_mapping
        lower_key == Lower(var_name)
        snake_key == IF ~HasUnderscore(lower_key) THEN SnakeKey(var_name) ELSE lower_key
    IN  IF var_name \in DOMAIN placeholder_map /\ Has(n, placeholder_map[var_name])
        THEN Found(format_value(n[placeholder_map[var_name]]))
        ELSE IF Has(n, lower_key)
        THEN Found(format_value(n[lower_key]))
        ELSE IF ~HasUnderscore(lower_key) /\ Has(n, snake_key)
        THEN Found(format_value(n[snake_key]))
        ELSE IF HasUnderscore(snake_key) /\ Has(n, CamelKey(snake_key))
        THEN Found(format_value(n[CamelKey(snake_key)]))
        ELSE [out |-> "", warned |-> <<var_name>>]

\* replace_match trying the camelCase key before the lowercased name
replace_match_camel_first(var_name, n) ==
    LET placeholder_map == get_placeholder_mapping
        lower_key == Lower(var_name)
        snake_key == IF ~HasUnderscore(lower_key) THEN SnakeKey(var_name) ELSE lower_key
    IN  IF StartsWith(var_name, "IF_") \/ StartsWith(var_name, "ENDIF_")
        THEN Found("")
        ELSE IF var_name \in DOMAIN placeholder_map /\ Has(n, placeholder_map[var_name])
        THEN Found(format_value(n[placeholder_map[var_name]]))
        ELSE IF HasUnderscore(snake_key) /\ Has(n, CamelKey(snake_key))
        THEN Found(format_value(n[CamelKey(snake_key)]))
        ELSE IF Has(n, lower_key)
        THEN Found(format_value(n[lower_key]))
        ELSE IF ~HasUnderscore(lower_key) /\ Has(n, snake_key)
        THEN Found(format_value(n[snake_key]))
        ELSE [out |-> "", warned |-> <<var_name>>]

\* lines 370-408: the replacement of one token and the names warned about
replace_match(var_name, n) ==
    LET placeholder_map == get_placeholder_mapping
        lower_key == Lower(var_name)
        snake_key == IF ~HasUnderscore(lower_key) THEN SnakeKey(var_name) ELSE lower_key
    IN  IF StartsWith(var_name, "IF_") \/ StartsWith(var_name, "ENDIF_")
        THEN Found("")
        ELSE IF var_name \in DOMAIN placeholder_map /\ Has(n, placeholder_map[var_name])
        THEN Found(format_value(n[placeholder_map[var_name]]))
        ELSE IF Has(n, lower_key)
        THEN Found(format_value(n[lower_key]))
        ELSE IF ~HasUnderscore(lower_key) /\ Has(n, snake_key)
        THEN Found(format_value(n[snake_key]))
        ELSE IF HasUnderscore(snake_key) /\ Has(n, CamelKey(snake_key))
        THEN Found(format_value(n[CamelKey(snake_key)]))
        ELSE [out |-> "", warned |-> <<var_name>>]

\* re.sub with count = 1: only the leftmost token is replaced
SubPlaceholdersOnce(s, i, n) ==
    LET j == First({k \in Opens(s, i) : PlaceholderAt(s, k).ok})
    IN  IF j = 0 THEN Found(SubSeq(s, i, Len(s)))
        ELSE LET m == PlaceholderAt(s, j)
                 r == replace_match(m.name, n)
             IN  [out |-> SubSeq(s, i, j - 1) \o r.out \o SubSeq(s, m.end + 1, Len(s)),
                  warned |-> r.warned]

RECURSIVE SubPlaceholders(_, _, _)
\* line 410: re.sub(pattern, replace_match, s) from i on
SubPlaceholders(s, i, n) ==
    LET j == First({k \in Opens(s, i) : PlaceholderAt(s, k).ok})
    IN  IF j = 0 THEN Found(SubSeq(s, i, Len(s)))
        ELSE LET m == PlaceholderAt(s, j)
                 r == replace_match(m.name, n)
                 rest == SubPlaceholders(s, m.end + 1, n)
             IN  [out |-> SubSeq(s, i, j - 1) \o r.out \o rest.out,
                  warned |-> r.warned \o rest.warned]

\* lines 345-412: the rendered string and the diagnostics printed
replace_placeholders(tpl, ctx) ==
    LET normalized_context == normalize_context(ctx)
        result == process_conditional_placeholders(tpl, ctx)
    IN  SubPlaceholders(result, 1, normalized_context)

(***************************************************************************)
(* validate_replacements, validate_template_context                        *)
(***************************************************************************)
RECURSIVE FindPlaceholders(_, _)
\* re.findall(r'<PLACEHOLDER:\s*(\w+)>', s) from i on: the names, in order
FindPlaceholders(s, i) ==
    LET j == First({k \in Opens(s, i) : PlaceholderAt(s, k).ok})
    IN  IF j = 0 THEN <<>>
        ELSE <<PlaceholderAt(s, j).name>>
             \o FindPlaceholders(s, PlaceholderAt(s, j).end + 1)

RECURSIVE FindTokens(_, _)
\* re.findall(r'<PLACEHOLDER:\s*\w+>', s) from i on: the matched texts, in order
FindTokens(s, i) ==
    LET j == First({k \in Opens(s, i) : PlaceholderAt(s, k).ok})
    IN  IF j = 0 THEN <<>>
        ELSE <<SubSeq(s, j, PlaceholderAt(s, j).end)>>
             \o FindTokens(s, PlaceholderAt(s, j).end + 1)

\* re.match in place of re.findall: only a token at the start is seen
validate_replacements_at_start(result) ==
    LET remaining == IF PlaceholderAt(result, 1).ok
                     THEN <<SubSeq(result, 1, PlaceholderAt(result, 1).end)>>
                     ELSE <<>>
    IN  [ok |-> remaining = <<>>, remaining |-> remaining]

\* lines 452-469: the verdict and the tokens listed in the warning
validate_replacements(result) ==
    LET remaining == FindTokens(result, 1)
    IN  [ok |-> remaining = <<>>, remaining |-> remaining]

Range(seq) == {seq[i] : i \in 1..Len(seq)}

\* lines 492-508: is the placeholder reported missing, and under which label
MissingLabel(placeholder, n) ==
    LET placeholder_map == get_placeholder_mapping
        lower_key == Lower(placeholder)
        context_key ==
            IF ~HasUnderscore(lower_key) THEN SnakeKey(placeholder) ELSE lower_key
    IN  IF placeholder \in DOMAIN placeholder_map
        THEN IF ~Has(n, placeholder_map[placeholder])
             THEN {placeholder \o " (maps to " \o placeholder_map[placeholder] \o ")"}
             ELSE {}
        ELSE IF ~Has(n, lower_key) /\ ~Has(n, context_key)
        THEN {placeholder}
        ELSE {}

\* lines 472-510: (is_valid, missing); missing is built in set order, so a set
validate_template_context(tpl, ctx) ==
    LET normalized_context == normalize_context(ctx)
        placeholders == Range(FindPlaceholders(tpl, 1))
        missing == UNION {MissingLabel(p, normalized_context) : p \in placeholders}
    IN  [is_valid |-> missing = {}, missing |-> missing]

(***************************************************************************)
(* Inputs                                                                  *)
(***************************************************************************)
\* the longest template, counted in parts
MaxParts == 2
\* the longest list given to format_value
MaxList == 5

Token(name) == "<PLACEHOLDER: " \o name \o ">"
Region(name, body) == Token("IF_" \o name) \o body \o Token("ENDIF_" \o name)

\* the pieces templates are made of: text, tokens, the start of a token, a region
Parts ==
    { "Xq",
      Token("PROJECT_NAME"),
      Token("IF_PYTHON"), Token("ENDIF_PYTHON"),
      Token("IF_GO"), Token("ENDIF_GO"),
      PlaceholderOpen,
      Region("GO", "Inner") }

RECURSIVE Concats(_)
\* the concatenations of at most k parts
Concats(k) ==
    IF k = 0 THEN {""}
    ELSE LET shorter == Concats(k - 1)
         IN  shorter \cup {t \o p : t \in shorter, p \in Parts}

PartTemplates == Concats(MaxParts)

\* a template of parts inside a region
NestedTemplates == {Region("PYTHON", t) : t \in PartTemplates}

Ctx1(k, x) == [j \in {k} |-> x]
Ctx2(k1, x1, k2, x2) == [j \in {k1, k2} |-> IF j = k1 THEN x1 ELSE x2]

PartContexts ==
    { EmptyContext,
      Ctx1("primary_language", Str("python")),
      Ctx1("primary_language", Str("go")),
      Ctx1("primary_language", None),
      Ctx2("project_name", Str("Acme"), "primary_language", Str("python")),
      Ctx1("project_name", Str(Token("PROJECT_NAME"))),
      Ctx2("project_name", Str("Xq"), "primary_language", Str("go")),
      Ctx1("project_name", Str("  ")) }

\* the scenarios of section 8 of the specification
ExampleTemplates ==
    { Region("PYTHON", "A") \o Region("GO", "B"),
      "Project: " \o Token("PROJECT_NAME") \o ", Lang: " \o Token("PRIMARY_LANGUAGE"),
      Token("TOTALLY_UNKNOWN_XYZ"),
      Token("DATABASE"),
      "Xq, " \o Token("TOTALLY_UNKNOWN_XYZ") \o ">" \o Token("DATABASE") \o "\n" }

ExampleContexts ==
    PartContexts \cup
    { Ctx1("databases", List(<<Str("postgresql")>>)),
      Ctx2("databases", List(<<Str("postgresql")>>), "database", Str("mysql")),
      Ctx1("database", Str("mysql")),
      Ctx1("totally_unknown_xyz", Str("v")),
      Ctx1("totallyUnknownXyz", Str("v")),
      Ctx1("totally_Unknown_Xyz", Str("v")) }

\* templates with markers that close nothing or open nothing, regions side by
\* side, and regions with placeholders in the body
DanglingNames == {"PYTHON", "JAVASCRIPT", "REACT", "CLI", "DOCKER", "AWS", "ZZ", "python"}

MarkerTemplates ==
    { Token("ENDIF_GO"),
      "<PLACEHOLDER: " \o Token("IF_GO") \o "IF_GO>",
      Token("IF_"),
      Region("PYTHON", "a") \o "b" \o Region("PYTHON", "c"),
      Token("IF_PYTHON") \o "a" \o Token("ENDIF_GO") \o "c" \o Token("ENDIF_PYTHON"),
      Token("IF_GO") \o "a" \o Region("PYTHON", "c"),
      Region("PYTHON", Token("TOTALLY_UNKNOWN_XYZ") \o " and " \o Token("PROJECT_NAME")),
      Token("TOTALLY_UNKNOWN_XYZ") \o " and " \o Token("PROJECT_NAME") }
    \cup {Token("IF_" \o x) \o "A" \o Token("PROJECT_NAME") : x \in DanglingNames}

MarkerContexts ==
    { EmptyContext,
      Ctx1("primary_language", Str("python")),
      Ctx1("primary_language", Str("go")),
      Ctx1("primary_language", Str("javascript")),
      Ctx1("framework", Str("react")),
      Ctx1("project_type", Str("cli")),
      Ctx1("containerization", List(<<Str("docker")>>)),
      Ctx1("cloud_platforms", List(<<Str("aws")>>)),
      Ctx2("zz", Str("zz"), "primary_language", Str("zz")),
      Ctx2("endif_go", Str("v"), "if_go", Str("w")),
      Ctx2("project_name", Str("Acme"), "primary_language", Str("python")) }

\* one token for every name of the alias table and for names outside it: a
\* camelCase name, an upper-snake name, a name of upper-case letters only
FallbackNames == {"userName", "MY_KEY", "USERNAME"}

ResolverTemplates ==
    {Token(x) : x \in DOMAIN get_placeholder_mapping \cup FallbackNames}

\* the keys the lookups of lines 385-404 try for those names
FallbackKeys == {"username", "user_name", "userName", "my_key", "myKey"}

\* every choice of those keys, each key with a value that names it
ResolverContexts ==
    {[k \in K |-> Str("at " \o k)] : K \in SUBSET FallbackKeys}
    \cup { Ctx1("languages", List(<<Str("python")>>)),
           Ctx1("languages", None) }

\* conditional regions: every condition name, some case variants, unknown names
ConditionNames ==
    { "PYTHON", "JAVASCRIPT", "GO", "RUST",
      "FASTAPI", "DJANGO", "FLASK", "REACT", "NEXTJS", "EXPRESS", "NESTJS",
      "MICROSERVICES", "MONOREPO", "SPA", "API", "FULL_STACK", "CLI",
      "DOCKER", "KUBERNETES", "AWS", "AZURE", "GCP", "VERCEL", "NETLIFY", "HEROKU" }

OtherNames == {"python", "Go", "TYPESCRIPT", "ZZ", "PRIMARY_LANGUAGE", "PYTHON3"}

Bodies == {"x " \o Token("PROJECT_NAME") \o "\ny", ""}

ConditionTemplates ==
    {Region(x, "A") : x \in ConditionNames \cup OtherNames}
    \cup {Region("PYTHON", b) : b \in Bodies}

ScalarKeys == {"primary_language", "framework", "project_type"}
ListKeys == {"containerization", "orchestration", "cloud_platforms"}

ScalarNames ==
    { "python", "javascript", "typescript", "go", "rust",
      "fastapi", "django", "flask", "react", "nextjs", "express", "nestjs",
      "microservices", "monorepo", "spa", "api", "full_stack", "cli" }

ToolNames ==
    {"docker", "kubernetes", "aws", "azure", "gcp", "vercel", "netlify", "heroku"}

ConditionContexts ==
    {Ctx1(k, Str(x)) : k \in ScalarKeys, x \in ScalarNames}
    \cup {Ctx1(k, List(<<Str("Tool"), Str(x)>>)) : k \in ListKeys, x \in ToolNames}
    \cup {Ctx1(k, Str("My" \o Capitalize(x) \o "Stack")) : k \in ListKeys, x \in ToolNames}
    \cup { EmptyContext,
           Ctx1("primary_language", Str("Python")),
           Ctx1("primary_language", Str("python3")),
           Ctx1("framework", Str("docker")),
           Ctx1("containerization", List(<<Str("python")>>)),
           Ctx2("zz", Str("zz"), "primary_language", Str("zz")),
           Ctx2("python", Str("python"), "framework", Str("python")) }

\* contexts given to normalize_context: each key absent (Absent) or one of its values
Absent == [t |-> "absent"]

NormChoices ==
    [ technologies |-> {Absent, None, Str("Unknown"), Str("Custom stack")},
      languages |-> {Absent, List(<<>>), List(<<Str("python")>>),
                     List(<<Str("unknown")>>), List(<<Str("typeScript"), Str("go")>>)},
      frameworks |-> {Absent, None, List(<<Str("nextjs")>>),
                      List(<<Str("nestjs"), Str("django")>>)},
      networking |-> {Absent, None, Dict(<<>>), Str("Ports: 80"),
                      Dict(<<<<"ports", List(<<IntV(80), IntV(443)>>)>>>>),
                      Dict(<<<<"ports", List(<<>>)>>>>),
                      Dict(<<<<"reverse_proxy", Str("nginx")>>,
                             <<"networks", List(<<Str("front"), Str("back")>>)>>,
                             <<"ports", List(<<IntV(8080)>>)>>>>)},
      project_name |-> {Absent, None},
      custom_key |-> {Absent, Str("kept")} ]

\* the context that holds the keys of c that are not Absent
Present(c) == [k \in {j \in DOMAIN c : c[j] # Absent} |-> c[k]]

NormContexts ==
    {Present([technologies |-> te, languages |-> la, frameworks |-> fr,
              networking |-> ne, project_name |-> pn, custom_key |-> cu]) :
        te \in NormChoices.technologies, la \in NormChoices.languages,
        fr \in NormChoices.frameworks, ne \in NormChoices.networking,
        pn \in NormChoices.project_name, cu \in NormChoices.custom_key}

\* contexts whose languages, frameworks or networking entries are not of the
\* documented types
MalformedContexts ==
    { Ctx1("languages", List(<<None>>)),
      Ctx1("languages", IntV(5)),
      Ctx1("languages", Str("py")),
      Ctx1("frameworks", List(<<IntV(3)>>)),
      Ctx1("networking", Dict(<<<<"ports", IntV(80)>>>>)),
      Ctx1("networking", Dict(<<<<"networks", List(<<IntV(1)>>)>>>>)),
      Ctx1("networking", Dict(<<<<"networks", Str("ab")>>>>)),
      Ctx2("languages", List(<<Str("python"), None>>), "technologies", Str("Custom")) }

\* more networking values: a mapping without any of the three keys, a reverse
\* proxy that is None or empty, networks alone, the empty string
NetworkingContexts ==
    { Ctx1("networking", Dict(<<<<"dns", Str("x")>>>>)),
      Ctx1("networking", Dict(<<<<"reverse_proxy", None>>>>)),
      Ctx1("networking", Dict(<<<<"networks", List(<<>>)>>, <<"reverse_proxy", Str("")>>>>)),
      Ctx1("networking", Dict(<<<<"networks", List(<<Str("front")>>)>>>>)),
      Ctx1("networking", Str("")) }

\* values given to format_value
RECURSIVE ListsOf(_, _)
ListsOf(elems, k) ==
    IF k = 0 THEN {<<>>}
    ELSE LET shorter == ListsOf(elems, k - 1)
         IN  shorter \cup {Append(l, e) : l \in {m \in shorter : Len(m) = k - 1},
                                           e \in elems}

Values ==
    {List(l) : l \in ListsOf({Str("a"), Str("b")}, MaxList)}
    \cup { None, Str(""), Str(" \n"), Str("text"), IntV(42),
           List(<<IntV(1), Str("x"), IntV(2), IntV(3)>>),
           Dict(<<>>), Dict(<<<<"k", Str("v")>>, <<"n", IntV(1)>>>>) }

(***************************************************************************)
(* The calls                                                               *)
(***************************************************************************)
\* no InterviewEngine object exists
NoEngine == [pc |-> "none"]

Idle ==
    /\ pc = "start"
    /\ normalized = EmptyContext
    /\ renormalized = EmptyContext
    /\ conditioned = ""
    /\ rendered = ""
    /\ warnings = <<>>
    /\ complete = [ok |-> TRUE, remaining |-> <<>>]
    /\ vtc = [is_valid |-> TRUE, missing |-> {}]
    /\ formatted = ""
    /\ aliased = FALSE
    /\ threads = <<>>

InitRender ==
    /\ call = "replace_placeholders"
    /\ \/ template \in PartTemplates \cup NestedTemplates /\ context \in PartContexts
       \/ template \in ExampleTemplates /\ context \in ExampleContexts
       \/ template \in MarkerTemplates /\ context \in MarkerContexts
       \/ template \in ResolverTemplates /\ context \in ResolverContexts
       \/ template \in ConditionTemplates /\ context \in ConditionContexts
    /\ value = None
    /\ Idle

InitNormalize ==
    /\ call = "normalize_context"
    /\ template = ""
    /\ context \in NormContexts \cup MalformedContexts \cup NetworkingContexts
    /\ value = None
    /\ Idle

InitFormat ==
    /\ call = "format_value"
    /\ template = ""
    /\ context = EmptyContext
    /\ value \in Values
    /\ Idle

Init ==
    /\ InitRender \/ InitNormalize \/ InitFormat
    /\ engine = NoEngine

\* replace_placeholders line 359, or a call of normalize_context; an exception
\* raised in normalize_context ends the call
Normalize ==
    /\ pc = "start"
    /\ call \in {"replace_placeholders", "normalize_context"}
    /\ LET r == normalize_call(context)
       IN  /\ normalized' = r.result
           /\ context' = r.argument
           /\ aliased' = r.is_argument
    /\ pc' = IF IsRaised(normalized') THEN "raised" ELSE "normalized"
    /\ UNCHANGED <<threads, engine>>
    /\ UNCHANGED <<call, template, value, renormalized, conditioned,
                   rendered, warnings, complete, vtc, formatted>>

\* normalize_context applied to its own result
NormalizeAgain ==
    /\ pc = "normalized"
    /\ call = "normalize_context"
    /\ LET r == normalize_call(normalized)
       IN  /\ renormalized' = r.result
           /\ normalized' = r.argument
           /\ aliased' = r.is_argument
    /\ pc' = "done"
    /\ UNCHANGED <<threads, engine>>
    /\ UNCHANGED <<call, template, context, value, conditioned,
                   rendered, warnings, complete, vtc, formatted>>

\* replace_placeholders line 365; the call normalizes the context again (line 160)
ProcessConditionals ==
    /\ pc = "normalized"
    /\ call = "replace_placeholders"
    /\ conditioned' = process_conditional_placeholders(template, context)
    /\ context' = normalize_call(context).argument
    /\ pc' = "conditioned"
    /\ UNCHANGED <<threads, engine>>
    /\ UNCHANGED <<call, template, value, normalized, renormalized,
                   rendered, warnings, complete, vtc, formatted, aliased>>

\* replace_placeholders lines 368-412
Substitute ==
    /\ pc = "conditioned"
    /\ LET r == SubPlaceholders(conditioned, 1, normalized)
       IN  rendered' = r.out /\ warnings' = r.warned
    /\ pc' = "rendered"
    /\ UNCHANGED <<threads, engine>>
    /\ UNCHANGED <<call, template, context, value, normalized, renormalized,
                   conditioned, complete, vtc, formatted, aliased>>

\* validate_replacements on the rendered string
ValidateReplacements ==
    /\ pc = "rendered"
    /\ complete' = validate_replacements(rendered)
    /\ pc' = "validated"
    /\ UNCHANGED <<threads, engine>>
    /\ UNCHANGED <<call, template, context, value, normalized, renormalized,
                   conditioned, rendered, warnings, vtc, formatted, aliased>>

\* validate_template_context on the inputs of the render; the call normalizes the
\* context (line 484)
ValidateTemplateContext ==
    /\ pc = "validated"
    /\ vtc' = validate_template_context(template, context)
    /\ context' = normalize_call(context).argument
    /\ pc' = "done"
    /\ UNCHANGED <<threads, engine>>
    /\ UNCHANGED <<call, template, value, normalized, renormalized,
                   conditioned, rendered, warnings, complete, formatted, aliased>>

\* a call of format_value
FormatValue ==
    /\ pc = "start"
    /\ call = "format_value"
    /\ formatted' = format_value(value)
    /\ pc' = "done"
    /\ UNCHANGED <<threads, engine>>
    /\ UNCHANGED <<call, template, context, value, normalized, renormalized,
                   conditioned, rendered, warnings, complete, vtc, aliased>>

Next ==
    \/ Normalize
    \/ NormalizeAgain
    \/ ProcessConditionals
    \/ Substitute
    \/ ValidateReplacements
    \/ ValidateTemplateContext
    \/ FormatValue

Spec == Init /\ [][Next]_vars

(***************************************************************************)
(* Properties                                                              *)
(***************************************************************************)
Normalizing == call = "normalize_context"
Rendering == call = "replace_placeholders"
Formatting == call = "format_value"

AfterNormalize == pc \notin {"start", "raised"}
AfterConditionals == pc \in {"conditioned", "rendered", "validated", "done"}
AfterSubstitute == pc \in {"rendered", "validated", "done"}
AfterValidate == pc \in {"validated", "done"}

\* C4: normalizing a normalized context changes nothing:
\* normalize_context(normalize_context(ctx)) = normalize_context(ctx).
C4_IdempotentNormalization ==
    (Normalizing /\ pc = "done") => renormalized = normalized

\* C4 witness: a context whose technologies were derived and whose networking
\* mapping was collapsed has been normalized twice.
C4_Witness ==
    /\ Normalizing /\ pc = "done"
    /\ Has(context, "networking") /\ IsDict(context["networking"])
    /\ Truthy(context["networking"])
    /\ IsStr(normalized["networking"])
    /\ Has(context, "languages") /\ Truthy(context["languages"])
    /\ normalized["technologies"] # Str("Unknown")
    /\ normalized # ApplyDefaults(context)

\* the default table of section 6 of the specification
DocumentedDefaults ==
    [ project_name |-> Str("Project"), project_type |-> Str("unknown"),
      primary_language |-> Str("unknown"), framework |-> Str("unknown"),
      frameworks |-> List(<<>>), technologies |-> Str("Unknown"),
      architecture |-> Str("unknown"), deployment_type |-> Str("unknown"),
      coding_standards |-> Str("unknown"), file_organization |-> Str("standard"),
      testing_framework |-> Str("unknown"), services |-> List(<<>>),
      ports |-> List(<<>>), databases |-> List(<<>>), networking |-> Dict(<<>>),
      project_description |-> Str(""), project_purpose |-> Str(""),
      key_concepts |-> List(<<>>), documentation_sources |-> List(<<>>),
      containerization |-> List(<<>>), orchestration |-> List(<<>>),
      cloud_platforms |-> List(<<>>), linting_tools |-> List(<<>>),
      formatting_tools |-> List(<<>>), build_tools |-> List(<<>>) ]

Unset(ctx, k) == ~Has(ctx, k) \/ ctx[k] = None

\* technologies is derived instead of defaulted
TechnologiesDerived(ctx) ==
    /\ Unset(ctx, "technologies")
    /\ \/ ~Unset(ctx, "languages") /\ Truthy(ctx["languages"])
       \/ ~Unset(ctx, "frameworks") /\ Truthy(ctx["frameworks"])

\* C5 as stated: the normalized context holds every key of the default table
\* with a non-null value, every key that is absent or None takes its documented
\* default, other keys pass through unchanged, and the empty context yields
\* exactly the documented defaults.
C5_Original ==
    (Normalizing /\ AfterNormalize) =>
        /\ \A k \in DOMAIN DocumentedDefaults :
              /\ Has(normalized, k) /\ normalized[k] # None
              /\ Unset(context, k) => normalized[k] = DocumentedDefaults[k]
        /\ \A k \in DOMAIN context \ DOMAIN DocumentedDefaults :
              Has(normalized, k) /\ normalized[k] = context[k]
        /\ context = EmptyContext => normalized = DocumentedDefaults

\* C5 amended: as C5, except that an absent or None technologies takes the
\* string derived from languages and frameworks when one of them is non-empty.
C5_DefaultCompleteness ==
    (Normalizing /\ AfterNormalize) =>
        /\ \A k \in DOMAIN DocumentedDefaults :
              /\ Has(normalized, k) /\ normalized[k] # None
              /\ (Unset(context, k) /\ ~(k = "technologies" /\ TechnologiesDerived(context)))
                    => normalized[k] = DocumentedDefaults[k]
        /\ TechnologiesDerived(context) => IsStr(normalized["technologies"])
        /\ \A k \in DOMAIN context \ DOMAIN DocumentedDefaults :
              Has(normalized, k) /\ normalized[k] = context[k]
        /\ context = EmptyContext => normalized = DocumentedDefaults

\* C5 witness: a None value and a missing key were replaced by their defaults,
\* and a key outside the table was kept.
C5_Witness ==
    /\ Normalizing /\ AfterNormalize
    /\ Has(context, "project_name") /\ context["project_name"] = None
    /\ normalized["project_name"] = Str("Project")
    /\ ~Has(context, "networking") /\ normalized["networking"] = Dict(<<>>)
    /\ Has(context, "custom_key") /\ normalized["custom_key"] = Str("kept")

IsStrList(x) == IsList(x) /\ \A i \in 1..Len(x.l) : IsStr(x.l[i])

\* C9: format_value of a sequence is "None" when it is empty, the comma-space
\* join of all elements up to length 3, and the first 3 elements followed by
\* ", and N more" with N = length - 3 beyond that.
C9_ListFormatting ==
    (Formatting /\ pc = "done" /\ IsStrList(value)) =>
        LET e == [i \in 1..Len(value.l) |-> value.l[i].s]
            len == Len(e)
        IN  /\ len = 0 => formatted = "None"
            /\ len = 1 => formatted = e[1]
            /\ len = 2 => formatted = e[1] \o ", " \o e[2]
            /\ len = 3 => formatted = e[1] \o ", " \o e[2] \o ", " \o e[3]
            /\ len > 3 => formatted = e[1] \o ", " \o e[2] \o ", " \o e[3]
                                       \o ", and " \o IntToStr(len - 3) \o " more"
            /\ value = List(<<Str("a"), Str("b"), Str("b"), Str("a")>>)
                  => formatted = "a, b, b, and 1 more"

\* C9 witness: a list of 4 items, one past the boundary, was formatted.
C9_Witness ==
    /\ Formatting /\ pc = "done"
    /\ value = List(<<Str("a"), Str("b"), Str("b"), Str("a")>>)
    /\ formatted = "a, b, b, and 1 more"

EndsWith(s, suffix) == MatchAt(s, Len(s) - Len(suffix) + 1, suffix)

\* the template is one region named x around body
IsRegion(tpl, x, body) ==
    LET open == Token("IF_" \o x)
        close == Token("ENDIF_" \o x)
    IN  /\ Len(tpl) >= Len(open) + Len(close)
        /\ StartsWith(tpl, open)
        /\ EndsWith(tpl, close)
        /\ body = SubSeq(tpl, Len(open) + 1, Len(tpl) - Len(close))

\* the names every token of a string carries
TokenNames(s) == Range(FindPlaceholders(s, 1))

\* C1 as stated: a template whose tokens all carry names of the alias table,
\* rendered with any context, leaves no <PLACEHOLDER: NAME> token, so
\* validate_replacements reports the rendered string complete.
C1_NoLeak ==
    (Rendering /\ AfterValidate /\ TokenNames(template) \subseteq DOMAIN get_placeholder_mapping)
        => (complete.ok /\ complete.remaining = <<>>)

\* the condition vocabulary and truth rules of section 4.3 of the specification
LanguageConditions == {"python", "javascript", "go", "rust"}
FrameworkConditions ==
    {"fastapi", "django", "flask", "react", "nextjs", "express", "nestjs"}
ProjectTypeConditions == {"microservices", "monorepo", "spa", "api", "full_stack", "cli"}
CloudConditions == {"aws", "azure", "gcp", "vercel", "netlify", "heroku"}
Vocabulary ==
    LanguageConditions \cup FrameworkConditions \cup ProjectTypeConditions
    \cup CloudConditions \cup {"docker", "kubernetes"}

Holds(x, n) ==
    LET c == Lower(x)
    IN  CASE c = "javascript" ->
                n["primary_language"] \in {Str("javascript"), Str("typescript")}
          [] c \in LanguageConditions \ {"javascript"} -> n["primary_language"] = Str(c)
          [] c \in FrameworkConditions -> n["framework"] = Str(c)
          [] c \in ProjectTypeConditions -> n["project_type"] = Str(c)
          [] c = "docker" -> Mentions(n["containerization"], c)
          [] c = "kubernetes" -> Mentions(n["orchestration"], c)
          [] c \in CloudConditions -> Mentions(n["cloud_platforms"], c)
          [] OTHER -> FALSE

TruthTableExample == Region("PYTHON", "A") \o Region("GO", "B")

Regions(tpl) ==
    {LET m == ConditionalAt(tpl, i)
         open == IfAt(tpl, i)
     IN  [start |-> i, name |-> m.name,
          bodyStart |-> open.end + 1,
          bodyEnd |-> open.end + Len(m.content),
          end |-> m.end] :
        i \in {j \in Opens(tpl, 1) : ConditionalAt(tpl, j).ok}}

\* the regions that do not start inside another region
TopRegions(tpl) ==
    LET all == Regions(tpl)
    IN  {r \in all : ~\E q \in all : q.start < r.start /\ r.start <= q.end}

\* pieces of text that identify where output comes from
Markers == {"Xq", "Inner"}
Occurrences(s, m) == {i \in 1..Len(s) : MatchAt(s, i, m)}
InBody(i, m, r) == r.bodyStart <= i /\ i + Len(m) - 1 <= r.bodyEnd
FromContext(m, n) == \E k \in DOMAIN n : Contains(PyStr(n[k]), m)

\* the markers all of whose occurrences lie in the body of a region of R
GuardedMarkers(tpl, R) ==
    {m \in Markers :
        /\ Occurrences(tpl, m) # {}
        /\ \A i \in Occurrences(tpl, m) : \E r \in R : InBody(i, m, r)}

\* C3 as stated: text guarded by a paired region whose condition is false, at top
\* level or inside the body of another region, never appears in the output of
\* process_conditional_placeholders or replace_placeholders.
C3_Original ==
    (Rendering /\ AfterConditionals) =>
        \A m \in GuardedMarkers(template,
                    {r \in Regions(template) : ~Holds(r.name, normalized)}) :
            ~FromContext(m, normalized) =>
                /\ ~Contains(conditioned, m)
                /\ AfterSubstitute => ~Contains(rendered, m)

\* C3 amended: every paired region that does not start inside another paired
\* region is replaced by its body if its condition holds and by the empty string
\* if not: text guarded by such a region never appears in the output when the
\* condition is false, and is kept by the conditional pass when it is true.
C3_TopLevelRegions ==
    (Rendering /\ AfterConditionals) =>
        LET top == TopRegions(template)
            met == {r \in top : Holds(r.name, normalized)}
        IN  top # {} =>
              /\ \A m \in GuardedMarkers(template, top \ met) :
                    ~FromContext(m, normalized) =>
                        /\ ~Contains(conditioned, m)
                        /\ AfterSubstitute => ~Contains(rendered, m)
              /\ \A m \in GuardedMarkers(template, met) :
                    Contains(conditioned, m)

\* C3 witness: a template with two top-level regions of a false condition, a
\* marker in each, was rendered without the marker.
C3_Witness ==
    /\ Rendering /\ pc = "done"
    /\ template = Region("GO", "Inner") \o Region("GO", "Inner")
    /\ ~Holds("GO", normalized)
    /\ ~Contains(rendered, "Inner")

UnknownToken == "<PLACEHOLDER: TOTALLY_UNKNOWN_XYZ>"

\* the template of the unresolvable placeholder is left unresolved and reported
Unresolved ==
    /\ rendered = ""
    /\ warnings = <<"TOTALLY_UNKNOWN_XYZ">>
    /\ complete.ok
    /\ pc = "done" => (~vtc.is_valid /\ "TOTALLY_UNKNOWN_XYZ" \in vtc.missing)

\* C6 as stated: with any context, the template <PLACEHOLDER: TOTALLY_UNKNOWN_XYZ>
\* renders to the empty string with a diagnostic naming the placeholder, and
\* validate_template_context returns is_valid = false with the name in missing.
C6_Original ==
    (Rendering /\ AfterValidate /\ template = UnknownToken) => Unresolved

\* C6 amended: the same for any context that has neither the key
\* totally_unknown_xyz nor the key totallyUnknownXyz.
C6_UnresolvablePlaceholder ==
    (Rendering /\ AfterValidate /\ template = UnknownToken
        /\ ~Has(context, "totally_unknown_xyz") /\ ~Has(context, "totallyUnknownXyz"))
        => Unresolved

\* C6 witness: the token was rendered with a context that has keys, none of
\* them resolving it, and validate_template_context reported it missing.
C6_Witness ==
    /\ Rendering /\ pc = "done" /\ template = UnknownToken
    /\ Has(context, "totally_Unknown_Xyz")
    /\ rendered = "" /\ warnings = <<"TOTALLY_UNKNOWN_XYZ">>
    /\ vtc = [is_valid |-> FALSE, missing |-> {"TOTALLY_UNKNOWN_XYZ"}]

\* the alias table of section 6 of the specification, for the names whose key is
\* not the lowercased name
AliasedKey(name) == IF name = "DATABASE" THEN "databases" ELSE Lower(name)

\* C7: a placeholder of the alias table is resolved from its aliased key when the
\* normalized context has it, before the lowercased name is looked up:
\* <PLACEHOLDER: DATABASE> renders the formatted value of databases, also when
\* the context has a key database.
C7_AliasPrecedence ==
    (Rendering /\ AfterSubstitute) =>
        /\ \A name \in {"DATABASE", "PROJECT_NAME", "PRIMARY_LANGUAGE"} :
              (template = Token(name) /\ Has(normalized, AliasedKey(name))) =>
                  /\ rendered = format_value(normalized[AliasedKey(name)])
                  /\ warnings = <<>>
        /\ (template = Token("DATABASE")
               /\ Get(context, "databases", None) = List(<<Str("postgresql")>>))
              => rendered = "postgresql"

\* C7 witness: DATABASE was rendered from databases although the context has a
\* key database.
C7_Witness ==
    /\ Rendering /\ pc = "done"
    /\ template = "<PLACEHOLDER: DATABASE>"
    /\ Has(context, "database") /\ context["database"] = Str("mysql")
    /\ Has(context, "databases")
    /\ rendered = "postgresql"

\* the parts that are text or one plain token
PlainParts == {p \in Parts : p # PlaceholderOpen /\ ~Contains(p, "IF_")}

\* what a plain part becomes: a token its resolved value, text itself
Image(p, n) ==
    IF StartsWith(p, "<PLACEHOLDER: ") /\ EndsWith(p, ">")
    THEN replace_match(SubSeq(p, Len("<PLACEHOLDER: ") + 1, Len(p) - 1), n).out
    ELSE p

RECURSIVE PlainRenderings(_, _)
\* the templates of at most k plain parts, each with its parts' images in order
PlainRenderings(k, n) ==
    IF k = 0 THEN {<<"", "">>}
    ELSE LET shorter == PlainRenderings(k - 1, n)
         IN  shorter \cup {<<r[1] \o p, r[2] \o Image(p, n)>> :
                              r \in shorter, p \in PlainParts}

EndToEndExample ==
    "Project: <PLACEHOLDER: PROJECT_NAME>, Lang: <PLACEHOLDER: PRIMARY_LANGUAGE>"

MixedExample ==
    "Xq, <PLACEHOLDER: TOTALLY_UNKNOWN_XYZ>><PLACEHOLDER: DATABASE>\n"

\* C8: in a template without conditional tokens every token is replaced in place
\* by the formatted value resolved for its name and all other text is kept in
\* order; "Project: <PLACEHOLDER: PROJECT_NAME>, Lang: <PLACEHOLDER:
\* PRIMARY_LANGUAGE>" with project_name = Acme and primary_language = python
\* renders to "Project: Acme, Lang: python".
C8_EndToEnd ==
    (Rendering /\ AfterSubstitute) =>
        /\ \A r \in PlainRenderings(MaxParts, normalized) :
              template = r[1] => rendered = r[2]
        /\ template = MixedExample =>
              rendered = "Xq, " \o replace_match("TOTALLY_UNKNOWN_XYZ", normalized).out
                         \o ">" \o replace_match("DATABASE", normalized).out \o "\n"
        /\ (template = EndToEndExample
               /\ context = Ctx2("project_name", Str("Acme"),
                                 "primary_language", Str("python")))
              => rendered = "Project: Acme, Lang: python"

\* C8 witness: the example of the specification was rendered.
C8_Witness ==
    /\ Rendering /\ pc = "done"
    /\ template = EndToEndExample
    /\ rendered = "Project: Acme, Lang: python"

\* the regions whose condition name is outside the vocabulary
UnknownRegions ==
    {Region(x, "A") : x \in {y \in OtherNames \cup ConditionNames :
                                 Lower(y) \notin Vocabulary}}

\* C10: a region IF_X ... ENDIF_X whose name X is outside the vocabulary is
\* dropped for every context, also when the context has a key or a value equal
\* to X.
C10_ClosedVocabulary ==
    (Rendering /\ AfterConditionals /\ template \in UnknownRegions) =>
        (conditioned = "" /\ (AfterSubstitute => rendered = ""))

\* C10 witness: a region of the unknown condition ZZ was dropped although the
\* context has the key zz and the value zz.
C10_Witness ==
    /\ Rendering /\ pc = "done"
    /\ template = "<PLACEHOLDER: IF_ZZ>A<PLACEHOLDER: ENDIF_ZZ>"
    /\ Has(context, "zz") /\ context["primary_language"] = Str("zz")
    /\ rendered = ""

\* C11 as stated: validate_template_context agrees with the resolver: is_valid
\* is true exactly when the render of the same template and context emits no
\* missing-variable diagnostic, and the names reported missing are exactly the
\* names the render fails to resolve.
C11_ResolverEquivalence ==
    (Rendering /\ pc = "done") =>
        /\ vtc.is_valid <=> warnings = <<>>
        /\ vtc.missing = Range(warnings)

\* a text of the form <PLACEHOLDER: NAME>: the opening, white space if any, a
\* name of one or more word characters, and >
IsTokenText(t) ==
    /\ StartsWith(t, "<PLACEHOLDER:") /\ EndsWith(t, ">")
    /\ LET mid == SubSeq(t, Len("<PLACEHOLDER:") + 1, Len(t) - 1)
       IN  \E k \in 0..(Len(mid) - 1) :
              /\ \A a \in 1..k : Ch(mid, a) \in SpaceChars
              /\ \A a \in (k + 1)..Len(mid) : Ch(mid, a) \in WordChars

\* the places where a substring of that form starts and ends
TokenSpans(s) ==
    {sp \in Opens(s, 1) \X {k \in 1..Len(s) : Ch(s, k) = ">"} :
        sp[1] < sp[2] /\ IsTokenText(SubSeq(s, sp[1], sp[2]))}

\* C12: validate_replacements reports the rendered string complete exactly when
\* it has no substring of the form <PLACEHOLDER: NAME>; otherwise it reports it
\* incomplete and lists the remaining tokens, one for each such substring; the
\* string it was given is not changed.
C12_ValidateReplacements ==
    /\ []((Rendering /\ AfterValidate) =>
            /\ complete.ok \in BOOLEAN
            /\ complete.ok <=> TokenSpans(rendered) = {}
            /\ Len(complete.remaining) = Cardinality(TokenSpans(rendered))
            /\ Range(complete.remaining) =
                  {SubSeq(rendered, sp[1], sp[2]) : sp \in TokenSpans(rendered)})
    /\ [][pc = "rendered" => rendered' = rendered]_vars

\* C12 witness: a rendered string of text followed by a token was reported
\* incomplete with that token.
C12_Witness ==
    /\ Rendering /\ AfterValidate
    /\ rendered = "Xq<PLACEHOLDER: PROJECT_NAME>"
    /\ ~complete.ok
    /\ complete.remaining = <<"<PLACEHOLDER: PROJECT_NAME>">>

\* C13 as stated: normalize_context raises no exception, whatever the types of
\* the values of languages, frameworks and networking; it always returns a
\* mapping.
C13_NeverRaises ==
    Normalizing => (pc # "raised" /\ ~IsRaised(normalized))

\* C14: no call changes its inputs: through every step of normalize_context,
\* process_conditional_placeholders, replace_placeholders, validate_replacements
\* and validate_template_context the caller's context mapping and template
\* string stay as they were, a second normalize_context leaves the mapping it
\* was given as it was, and the mapping normalize_context returns is never the
\* argument object.
C14_InputsNotMutated ==
    /\ [][context' = context /\ template' = template]_vars
    /\ [][(Normalizing /\ pc = "normalized") => normalized' = normalized]_vars
    /\ [](~aliased)

\* C14 witness: a render and both validations have run on a context that
\* normalization had to enrich.
C14_Witness ==
    /\ Rendering /\ pc = "done"
    /\ context = Ctx1("primary_language", Str("python"))
    /\ normalized # context /\ Has(normalized, "project_name")
    /\ template = "<PLACEHOLDER: IF_PYTHON><PLACEHOLDER: PROJECT_NAME>"
    /\ rendered = "Project"

(***************************************************************************)
(* Calls of replace_placeholders running at once, one for each thread.     *)
(* threads[t] holds the arguments of the call of thread t, its position,   *)
(* the value it returned and the local names of its frame.                 *)
(***************************************************************************)
MaxThreads == 2

Threads == 1..MaxThreads

ThreadTemplates ==
    { Region("PYTHON", "A") \o Token("PROJECT_NAME"),
      Token("PRIMARY_LANGUAGE"),
      "Xq" \o Token("TOTALLY_UNKNOWN_XYZ") }

ThreadContexts ==
    { EmptyContext,
      Ctx2("project_name", Str("Acme"), "primary_language", Str("python")),
      Ctx1("primary_language", Str("go")) }

\* one frame of local names for all calls
shared_frame(t) == 1

\* the frame that holds the local names of the call of thread t: a call has a
\* frame of its own
frame(t) == t

NoTable == [unset |-> TRUE]

ThreadStart(tpl, ctx) ==
    [ pc |-> "start", template |-> tpl, context |-> ctx, returned |-> "",
      normalized_context |-> EmptyContext, placeholder_map |-> NoTable,
      result |-> "", warned |-> <<>> ]

ConcurrentInit ==
    /\ call = "concurrent"
    /\ template = ""
    /\ context = EmptyContext
    /\ value = None
    /\ pc = "start"
    /\ normalized = EmptyContext
    /\ renormalized = EmptyContext
    /\ conditioned = ""
    /\ rendered = ""
    /\ warnings = <<>>
    /\ complete = [ok |-> TRUE, remaining |-> <<>>]
    /\ vtc = [is_valid |-> TRUE, missing |-> {}]
    /\ formatted = ""
    /\ aliased = FALSE
    /\ engine = NoEngine
    /\ threads \in [Threads -> {ThreadStart(tpl, ctx) : tpl \in ThreadTemplates,
                                                        ctx \in ThreadContexts}]

Sequential ==
    <<call, template, context, value, pc, normalized, renormalized, conditioned,
      rendered, warnings, complete, vtc, formatted, aliased, engine>>

\* lines 359-362 in thread t
ThreadNormalize(t) ==
    /\ threads[t].pc = "start"
    /\ threads' = [threads EXCEPT
          ![frame(t)].normalized_context = normalize_call(threads[t].context).result,
          ![frame(t)].placeholder_map = get_placeholder_mapping,
          ![t].context = normalize_call(threads[t].context).argument,
          ![t].pc = "normalized"]
    /\ UNCHANGED Sequential

\* line 365 in thread t
ThreadConditionals(t) ==
    /\ threads[t].pc = "normalized"
    /\ threads' = [threads EXCEPT
          ![frame(t)].result =
              process_conditional_placeholders(threads[t].template, threads[t].context),
          ![t].pc = "conditioned"]
    /\ UNCHANGED Sequential

\* lines 368-412 in thread t
ThreadSubstitute(t) ==
    /\ threads[t].pc = "conditioned"
    /\ LET r == SubPlaceholders(threads[frame(t)].result, 1,
                                threads[frame(t)].normalized_context)
       IN  threads' = [threads EXCEPT
              ![frame(t)].result = r.out,
              ![frame(t)].warned = r.warned,
              ![t].returned = r.out,
              ![t].pc = "returned"]
    /\ UNCHANGED Sequential

ConcurrentNext ==
    \E t \in Threads :
        \/ ThreadNormalize(t)
        \/ ThreadConditionals(t)
        \/ ThreadSubstitute(t)

ConcurrentSpec == ConcurrentInit /\ [][ConcurrentNext]_vars

\* C15: whatever the interleaving of the steps of the calls, each call returns
\* the string it returns when run alone and emits the diagnostics it emits
\* alone, its arguments stay as they were, and the alias table a call has built
\* holds the values of get_placeholder_mapping.
C15_ConcurrentRenders ==
    /\ [](\A t \in Threads :
            /\ threads[t].pc = "returned" =>
                  LET alone == replace_placeholders(threads[t].template,
                                                    threads[t].context)
                  IN  /\ threads[t].returned = alone.out
                      /\ threads[t].warned = alone.warned
            /\ threads[t].pc # "start" =>
                  /\ threads[t].placeholder_map = get_placeholder_mapping
                  /\ threads[t].normalized_context = normalize_context(threads[t].context))
    /\ [][\A t \in Threads :
            /\ threads'[t].template = threads[t].template
            /\ threads'[t].context = threads[t].context]_vars

\* C15 witness: thread 2 has run from start to return with another template
\* and context while thread 1 stood between its conditional pass and its
\* placeholder pass.
C15_Witness ==
    /\ call = "concurrent"
    /\ threads[1].pc = "conditioned"
    /\ threads[1].context = Ctx2("project_name", Str("Acme"), "primary_language", Str("python"))
    /\ threads[1].result = "A<PLACEHOLDER: PROJECT_NAME>"
    /\ threads[2].pc = "returned"
    /\ threads[2].context = Ctx1("primary_language", Str("go"))
    /\ threads[2].template = "<PLACEHOLDER: PRIMARY_LANGUAGE>"
    /\ threads[2].returned = "go"

\* the names of the tokens of s that start with the prefix
NamesWith(s, prefix) == {x \in TokenNames(s) : StartsWith(x, prefix)}

\* C16 as stated: the string returned by process_conditional_placeholders holds
\* no token whose name starts with IF_ or ENDIF_, whatever the template.
C16_Original ==
    (Rendering /\ AfterConditionals) =>
        (NamesWith(conditioned, "IF_") = {} /\ NamesWith(conditioned, "ENDIF_") = {})

\* the character < occurs in s only as the first character of a token
OnlyTokensOpen(s) == \A j \in Opens(s, 1) : PlaceholderAt(s, j).ok

\* no string of the context holds the character <
PlainValues(ctx) ==
    \A k \in DOMAIN ctx : IsStr(ctx[k]) => ~Contains(ctx[k].s, "<")

\* C16 amended: for a template where < occurs only as the first character of a
\* token, the string returned by process_conditional_placeholders holds no
\* token named IF_ followed by one or more characters; a token ENDIF_X that
\* closes no region (no IF_X before it, or inside the kept body of another
\* region) stays in that string, and the placeholder pass removes it.
C16_ConditionalTokens ==
    (Rendering /\ AfterConditionals) =>
        /\ OnlyTokensOpen(template) => NamesWith(conditioned, "IF_") \subseteq {"IF_"}
        /\ template = Token("ENDIF_GO") => conditioned = template
        /\ (template = Region("PYTHON", Region("GO", "Inner"))
               /\ normalized["primary_language"] = Str("python"))
              => conditioned = "Inner" \o Token("ENDIF_GO")
        /\ (AfterSubstitute /\ OnlyTokensOpen(template) /\ PlainValues(context)) =>
              (NamesWith(rendered, "IF_") = {} /\ NamesWith(rendered, "ENDIF_") = {})

\* C16 witness: a template of an IF_PYTHON that opens no region and an ENDIF_GO
\* that closes none went through both passes.
C16_Witness ==
    /\ Rendering /\ AfterSubstitute
    /\ template = Token("IF_PYTHON") \o Token("ENDIF_GO")
    /\ conditioned = "<PLACEHOLDER: ENDIF_GO>"
    /\ rendered = ""

C18_SurvivingConditionalToken ==
    (Rendering /\ AfterSubstitute) =>
        /\ \A name \in NamesWith(conditioned, "IF_") \cup NamesWith(conditioned, "ENDIF_") :
              replace_match(name, normalized) = [out |-> "", warned |-> <<>>]
        /\ template \in {Token("ENDIF_GO"), Token("IF_"),
                         "<PLACEHOLDER: " \o Token("IF_GO") \o "IF_GO>"}
              => (conditioned # "" /\ rendered = "" /\ warnings = <<>>)

\* C18 witness: a token IF_GO survived the conditional pass and was replaced
\* by nothing although the context has the key if_go.
C18_Witness ==
    /\ Rendering /\ pc = "done"
    /\ context = Ctx2("endif_go", Str("v"), "if_go", Str("w"))
    /\ conditioned = "<PLACEHOLDER: IF_GO>"
    /\ rendered = "" /\ warnings = <<>>

IsPython == normalized["primary_language"] = Str("python")

\* C19: regions are paired over the whole template before lone markers are
\* removed, and an IF_X is closed by the nearest following ENDIF_X of the same
\* name: in IF_X a ENDIF_X b IF_X c ENDIF_X the two regions are evaluated apart
\* and b is always kept; an ENDIF_Y between IF_X and ENDIF_X does not close the
\* region; a region behind a lone marker is still evaluated.
C19_PairingRule ==
    (Rendering /\ AfterConditionals) =>
        /\ template = Region("PYTHON", "a") \o "b" \o Region("PYTHON", "c") =>
              /\ conditioned = (IF IsPython THEN "abc" ELSE "b")
              /\ AfterSubstitute => rendered = conditioned
        /\ template = Token("IF_PYTHON") \o "a" \o Token("ENDIF_GO") \o "c"
                      \o Token("ENDIF_PYTHON") =>
              /\ conditioned = (IF IsPython THEN "a" \o Token("ENDIF_GO") \o "c" ELSE "")
              /\ AfterSubstitute => rendered = (IF IsPython THEN "ac" ELSE "")
        /\ template = Token("IF_GO") \o "a" \o Region("PYTHON", "c") =>
              conditioned = (IF IsPython THEN "ac" ELSE "a")
        /\ template = Region("GO", "Inner") \o Region("GO", "Inner") =>
              conditioned = (IF Holds("GO", normalized) THEN "InnerInner" ELSE "")

\* C19 witness: in IF_PYTHON a ENDIF_PYTHON b IF_PYTHON c ENDIF_PYTHON, python
\* not being the language, both regions were dropped and b was kept.
C19_Witness ==
    /\ Rendering /\ pc = "done"
    /\ template = Region("PYTHON", "a") \o "b" \o Region("PYTHON", "c")
    /\ normalized["primary_language"] = Str("go")
    /\ conditioned = "b" /\ rendered = "b"

BodyWithPlaceholders ==
    Token("TOTALLY_UNKNOWN_XYZ") \o " and " \o Token("PROJECT_NAME")

\* C20: the placeholders in the body of a region are resolved after the
\* conditional pass: when the condition holds the body renders as it renders
\* outside any region, with the same diagnostics; when it does not hold the
\* body gives no output and no diagnostic.
C20_PlaceholdersInBody ==
    (Rendering /\ AfterSubstitute) =>
        /\ template = Region("PYTHON", BodyWithPlaceholders) =>
              IF IsPython
              THEN /\ conditioned = BodyWithPlaceholders
                   /\ rendered = " and " \o format_value(normalized["project_name"])
                   /\ warnings = <<"TOTALLY_UNKNOWN_XYZ">>
                   /\ [out |-> rendered, warned |-> warnings]
                         = replace_placeholders(BodyWithPlaceholders, context)
              ELSE rendered = "" /\ warnings = <<>>
        /\ template = Region("PYTHON", "x " \o Token("PROJECT_NAME") \o "\ny") =>
              IF IsPython
              THEN rendered = "x " \o format_value(normalized["project_name"]) \o "\ny"
              ELSE rendered = "" /\ warnings = <<>>

\* C20 witness: the body with an unknown and a known placeholder was rendered
\* in a region whose condition holds.
C20_Witness ==
    /\ Rendering /\ pc = "done"
    /\ template = Region("PYTHON", BodyWithPlaceholders)
    /\ context = Ctx2("project_name", Str("Acme"), "primary_language", Str("python"))
    /\ rendered = " and Acme"
    /\ warnings = <<"TOTALLY_UNKNOWN_XYZ">>

\* C21 as stated: every alias target has a default: after normalize_context the
\* context key of every name of the alias table is present, so no render emits
\* the missing-variable diagnostic for a name of the alias table and
\* validate_template_context reports no name of the alias table as missing.
C21_AliasTargetsHaveDefaults ==
    /\ ((Normalizing \/ Rendering) /\ AfterNormalize) =>
          \A name \in DOMAIN get_placeholder_mapping :
              Has(normalized, get_placeholder_mapping[name])
    /\ (Rendering /\ AfterSubstitute) =>
          Range(warnings) \cap DOMAIN get_placeholder_mapping = {}
    /\ (Rendering /\ pc = "done") =>
          \A name \in DOMAIN get_placeholder_mapping :
              MissingLabel(name, normalized) \cap vtc.missing = {}

\* the keys the claim names for each name outside the alias table, in the order
\* it gives: the lowercased name; for a name without underscore, the name split
\* at camelCase boundaries and joined with underscores; the camelCase form of
\* the last key when that key has an underscore
FallbackOrder ==
    [ userName |-> <<"username", "user_name", "userName">>,
      MY_KEY |-> <<"my_key", "myKey">>,
      USERNAME |-> <<"username">> ]

\* C22: a placeholder name outside the alias table resolves from the first key
\* of its fallback order that is present in the normalized context, whatever
\* later keys are present too; only when none is present the diagnostic is
\* emitted and the empty string substituted.
C22_FallbackOrder ==
    \A name \in FallbackNames :
        (Rendering /\ AfterSubstitute /\ template = Token(name)) =>
            LET tries == FallbackOrder[name]
                present == {i \in 1..Len(tries) : Has(normalized, tries[i])}
            IN  IF present = {}
                THEN rendered = "" /\ warnings = <<name>>
                ELSE /\ rendered = "at " \o tries[CHOOSE i \in present :
                                                    \A j \in present : i <= j]
                     /\ warnings = <<>>

\* C22 witness: with all three keys present the camelCase name was resolved
\* from its lowercased form.
C22_Witness ==
    /\ Rendering /\ AfterSubstitute
    /\ template = Token("userName")
    /\ DOMAIN context = {"username", "user_name", "userName"}
    /\ rendered = "at username"

JsGroup == {"JAVASCRIPT", "TYPESCRIPT"}

\* C23 as stated: javascript and typescript form one group: a region named
\* IF_JAVASCRIPT or IF_TYPESCRIPT renders to its body exactly when
\* primary_language is javascript or typescript, and to nothing otherwise.
C23_JavascriptGroup ==
    \A x \in JsGroup :
        (Rendering /\ AfterSubstitute /\ template = Region(x, "A")) =>
            /\ conditioned = rendered
            /\ rendered =
                  (IF normalized["primary_language"] \in {Str("javascript"), Str("typescript")}
                   THEN "A"
                   ELSE "")

\* the context key each infrastructure condition reads
InfrastructureKey ==
    [ DOCKER |-> "containerization",
      KUBERNETES |-> "orchestration",
      AWS |-> "cloud_platforms",
      AZURE |-> "cloud_platforms",
      GCP |-> "cloud_platforms",
      VERCEL |-> "cloud_platforms",
      NETLIFY |-> "cloud_platforms",
      HEROKU |-> "cloud_platforms" ]

\* C24: the region of an infrastructure condition keeps its body exactly when
\* the value of the condition's own key (containerization for docker,
\* orchestration for kubernetes, cloud_platforms for the six cloud names) is
\* non-empty and its string form contains the condition name, ignoring case;
\* the name under another key does not count: docker listed under
\* cloud_platforms or orchestration leaves IF_DOCKER dropped.
C24_InfrastructureConditions ==
    (Rendering /\ AfterConditionals /\ StartsWith(template, "<PLACEHOLDER: IF_")) =>
        /\ \A x \in DOMAIN InfrastructureKey :
              template = Region(x, "A") =>
                  LET own == normalized[InfrastructureKey[x]]
                  IN  conditioned =
                        (IF own \notin {List(<<>>), Str(""), Dict(<<>>), None}
                            /\ Contains(Lower(PyStr(own)), Lower(x))
                         THEN "A"
                         ELSE "")
        /\ (template = Region("DOCKER", "A")
               /\ ~Has(context, "containerization")) => conditioned = ""

\* C24 witness: IF_DOCKER kept its body for a containerization value that
\* holds the name in another case.
C24_Witness ==
    /\ Rendering /\ AfterConditionals
    /\ template = Region("DOCKER", "A")
    /\ context = Ctx1("containerization", Str("MyDockerStack"))
    /\ conditioned = "A"

\* C24 second case reached: docker listed under cloud_platforms only, body dropped
C24_OtherKeyReached ==
    /\ Rendering /\ AfterConditionals
    /\ template = Region("DOCKER", "A")
    /\ context = Ctx1("cloud_platforms", List(<<Str("Tool"), Str("docker")>>))
    /\ conditioned = ""

\* the caller gave no networking mapping, or an empty one
EmptyNetworking(ctx) == Get(ctx, "networking", None) \in {None, Dict(<<>>)}

NetworkingParts ==
    { <<Dict(<<<<"ports", List(<<IntV(80), IntV(443)>>)>>>>), <<"Ports: 80, 443">>>>,
      <<Dict(<<<<"ports", List(<<>>)>>>>), <<>>>>,
      <<Dict(<<<<"reverse_proxy", Str("nginx")>>,
              <<"networks", List(<<Str("front"), Str("back")>>)>>,
              <<"ports", List(<<IntV(8080)>>)>>>>),
        <<"Ports: 8080", "Networks: front, back", "Reverse Proxy: nginx">>>>,
      <<Dict(<<<<"dns", Str("x")>>>>), <<>>>>,
      <<Dict(<<<<"reverse_proxy", None>>>>), <<"Reverse Proxy: None">>>>,
      <<Dict(<<<<"networks", List(<<>>)>>, <<"reverse_proxy", Str("")>>>>),
        <<"Reverse Proxy: ">>>>,
      <<Dict(<<<<"networks", List(<<Str("front")>>)>>>>), <<"Networks: front">>>> }

DisplayName ==
    [ python |-> "Python", unknown |-> "Unknown", typeScript |-> "Typescript",
      go |-> "Go", nextjs |-> "Next.js", nestjs |-> "NestJS", django |-> "Django" ]

\* the value of a list key, the empty list when the key is absent or None
ListOf(ctx, k) == IF Get(ctx, k, None) = None THEN List(<<>>) ELSE ctx[k]

IsNameList(x) ==
    IsList(x) /\ \A i \in 1..Len(x.l) : IsStr(x.l[i]) /\ x.l[i].s \in DOMAIN DisplayName

\* C27: technologies is rebuilt exactly when it is absent, None or "Unknown"
\* and languages or frameworks is non-empty; the rebuilt string shows every
\* language, then every framework, each in input order and with its first
\* letter in upper case, nextjs as Next.js and nestjs as NestJS, joined by
\* ", "; any other technologies value of the caller is kept, and with both
\* lists empty the value is "Unknown".
C27_TechnologiesDerivation ==
    (Normalizing /\ AfterNormalize
        /\ IsNameList(ListOf(context, "languages"))
        /\ IsNameList(ListOf(context, "frameworks"))) =>
        LET given == Get(context, "technologies", None)
            names == ListOf(context, "languages").l \o ListOf(context, "frameworks").l
        IN  normalized["technologies"] =
                (IF given \notin {None, Str("Unknown")} THEN given
                 ELSE IF names = <<>> THEN Str("Unknown")
                 ELSE Str(Join(", ", [i \in 1..Len(names) |-> DisplayName[names[i].s]])))

\* C27 witness: two languages and two frameworks, technologies given as
\* "Unknown", were listed languages first.
C27_Witness ==
    /\ Normalizing /\ pc = "normalized"
    /\ Get(context, "technologies", None) = Str("Unknown")
    /\ normalized["technologies"] = Str("Typescript, Go, NestJS, Django")

(***************************************************************************)
(* interview_engine.py: the five-phase interview                           *)
(*                                                                         *)
(* engine holds the InterviewEngine object (context, current_phase) and   *)
(* the frame of conduct_interview: the phase at hand, the data its        *)
(* run_phase returned, whether an exception reached the handlers of lines *)
(* 106-111, and the value returned.  ran and merged list the phases whose *)
(* run_phase was called and whose data context.update received.           *)
(***************************************************************************)
Bool(b) == [t |-> "bool", b |-> b]

\* the number of phases conduct_interview runs
Phases == 5

\* d.update(data)
update(d, data) ==
    [k \in DOMAIN d \cup DOMAIN data |-> IF k \in DOMAIN data THEN data[k] ELSE d[k]]

\* d.setdefault(k, x)
setdefault(d, k, x) == IF Has(d, k) THEN d ELSE Set(d, k, x)

\* a dict that is None or empty is false
IsEmpty(d) == d = None \/ DOMAIN d = {}

\* lines 143-180
validate_phase_results(phase_data, phase_number) ==
    IF IsEmpty(phase_data) THEN FALSE
    ELSE CASE phase_number = 1 ->
                 \A key \in {"project_name", "project_type", "primary_language"} :
                     Has(phase_data, key) /\ Truthy(phase_data[key])
           [] phase_number = 2 -> Has(phase_data, "architecture")
           [] phase_number = 3 -> Has(phase_data, "deployment_type")
           [] phase_number = 4 ->
                 Has(phase_data, "coding_standards") /\ Has(phase_data, "testing_framework")
           [] phase_number = 5 -> Has(phase_data, "confirmed")
           [] OTHER -> TRUE

\* lines 192-243
apply_phase_defaults(phase_data, phase_number, previous_context) ==
    LET defaults0 == IF IsEmpty(phase_data) THEN EmptyContext ELSE phase_data
        previous == IF IsEmpty(previous_context) THEN EmptyContext ELSE previous_context
        primary_lang == Get(previous, "primary_language", Str("python"))
    IN  CASE phase_number = 1 ->
                 setdefault(setdefault(setdefault(defaults0,
                     "project_name", Str("New Project")),
                     "project_type", Str("spa")),
                     "primary_language", Str("python"))
          [] phase_number = 2 ->
                 setdefault(setdefault(setdefault(setdefault(defaults0,
                     "technologies", List(<<>>)),
                     "services", List(<<>>)),
                     "ports", List(<<>>)),
                     "architecture", Get(previous, "project_type", Str("unknown")))
          [] phase_number = 3 ->
                 setdefault(setdefault(setdefault(setdefault(defaults0,
                     "deployment_type", Str("local")),
                     "networking", Str("standard")),
                     "databases", List(<<>>)),
                     "constraints", None)
          [] phase_number = 4 ->
                 setdefault(setdefault(setdefault(defaults0,
                     "coding_standards",
                         IF primary_lang = Str("python") THEN Str("PEP 8") ELSE Str("Standard")),
                     "testing_framework",
                         IF primary_lang = Str("python") THEN Str("pytest")
                         ELSE IF primary_lang \in {Str("javascript"), Str("typescript")}
                         THEN Str("jest")
                         ELSE Str("unknown")),
                     "file_organization", Str("standard"))
          [] phase_number = 5 ->
                 setdefault(setdefault(defaults0, "confirmed", Bool(TRUE)), "examples", None)
          [] OTHER -> defaults0

\* lines 246-279
cross_validate_phases(phase_data, previous_context) ==
    LET frameworks == Get(phase_data, "frameworks", None)
        framework == IF IsList(frameworks) THEN frameworks.l[1] ELSE frameworks
        with_ports ==
            IF Has(phase_data, "frameworks") /\ Truthy(frameworks)
               /\ (~Has(phase_data, "ports") \/ ~Truthy(phase_data["ports"]))
            THEN IF framework \in {Str("fastapi"), Str("django")}
                 THEN Set(phase_data, "ports", List(<<IntV(8000)>>))
                 ELSE IF framework \in {Str("react"), Str("nextjs"), Str("express")}
                 THEN Set(phase_data, "ports", List(<<IntV(3000)>>))
                 ELSE phase_data
            ELSE phase_data
        deployment_type == Get(with_ports, "deployment_type", Str(""))
    IN  IF deployment_type = Str("docker") /\ ~Has(with_ports, "containerization")
        THEN Set(with_ports, "containerization", List(<<Str("docker")>>))
        ELSE IF deployment_type = Str("kubernetes") /\ ~Has(with_ports, "orchestration")
        THEN Set(with_ports, "orchestration", List(<<Str("kubernetes")>>))
        ELSE with_ports

\* lines 282-308: the loop of lines 303-306 changes nothing
ensure_complete_context(ctx) == normalize_context(ctx)

\* what the user types is read by the phase functions; the dicts they can
\* return, for some answers of the user
run_phase1 ==
    {None} \cup
    {[project_name |-> Str("Acme"), project_type |-> Str(ty), primary_language |-> Str(la)] :
        ty \in {"api", "microservices"}, la \in {"python", "go"}}

run_phase2(ctx) ==
    { [services |-> List(<<>>), technologies |-> List(<<>>), frameworks |-> List(<<>>),
       ports |-> List(<<>>), architecture |-> Get(ctx, "project_type", Str("unknown"))],
      [services |-> List(<<>>), technologies |-> List(<<Str("fastapi")>>),
       frameworks |-> List(<<Str("fastapi")>>), ports |-> List(<<>>),
       architecture |-> Str("monolith")] }

run_phase3(ctx) ==
    {[deployment_type |-> Str(d), networking |-> Str("standard"),
      database |-> List(<<>>), constraints |-> None] : d \in {"docker", "local"}}

run_phase4(ctx) ==
    LET primary_language == Get(ctx, "primary_language", Str(""))
    IN  {[coding_standards |->
              IF primary_language = Str("python") THEN Str("PEP 8") ELSE Str("Standard"),
          file_organization |-> Str("standard"),
          testing_framework |->
              IF primary_language = Str("python") THEN Str("pytest")
              ELSE IF primary_language \in {Str("javascript"), Str("typescript")}
              THEN Str("jest")
              ELSE Str("unknown")]}

\* phase5_confirmation.py lines 36-59: confirmed is whether the answer was yes
run_phase5(ctx) ==
    {[confirmed |-> Bool(yes), examples |-> None] : yes \in BOOLEAN}

\* lines 113-141
run_phase(phase_number, ctx) ==
    CASE phase_number = 1 -> run_phase1
      [] phase_number = 2 -> run_phase2(ctx)
      [] phase_number = 3 -> run_phase3(ctx)
      [] phase_number = 4 -> run_phase4(ctx)
      [] phase_number = 5 -> run_phase5(ctx)

\* Ctrl-C at a prompt: KeyboardInterrupt leaves run_phase
Interrupt == [t |-> "KeyboardInterrupt"]

\* no value returned yet
Pending == [t |-> "pending"]

\* the test that is left out: "if phaseN_data is None" never true
is_none_ignored(phase_data) == FALSE

\* lines 32, 44, 58, 70, 84: if phaseN_data is None
is_none(phase_data) == phase_data = None

\* arguments of direct calls of apply_phase_defaults
PhaseDatas ==
    { None, EmptyContext,
      Ctx1("project_name", Str("")),
      [project_name |-> Str("Acme"), project_type |-> None, primary_language |-> Str("go")],
      [project_name |-> Str("Acme"), project_type |-> Str("api"),
       primary_language |-> Str("go")],
      Ctx1("architecture", None),
      Ctx1("confirmed", Bool(FALSE)),
      Ctx1("extra", Str("x")) }

PreviousContexts ==
    { None, EmptyContext,
      Ctx1("primary_language", Str("javascript")),
      Ctx2("project_type", Str("api"), "primary_language", Str("go")) }

\* the other variables while the interview engine runs
NoRender ==
    /\ template = ""
    /\ context = EmptyContext
    /\ value = None
    /\ Idle

\* lines 14-17 and the entry of conduct_interview
InitInterview ==
    /\ call = "conduct_interview"
    /\ NoRender
    /\ engine = [pc |-> "phase", phase |-> 1, context |-> EmptyContext, current_phase |-> 0,
                 phase_data |-> Pending, ran |-> <<>>, merged |-> <<>>, raised |-> FALSE,
                 result |-> Pending, completed |-> FALSE]

\* a direct call apply_phase_defaults(phase_data, phase_number, previous_context)
InitDefaults ==
    /\ call = "apply_phase_defaults"
    /\ NoRender
    /\ \E phase_number \in 1..Phases, phase_data \in PhaseDatas,
          previous_context \in PreviousContexts :
          engine = [pc |-> "call", phase |-> phase_number, phase_data |-> phase_data,
                    previous |-> previous_context, repaired |-> Pending, valid |-> FALSE]

InterviewInit == InitInterview \/ InitDefaults

\* lines 31-33, 43-45, 57-59, 69-71, 83-85 and the handler of lines 106-108:
\* run_phase(n) returns a dict or None, or the user interrupts it
RunPhase(phase_number) ==
    /\ call = "conduct_interview"
    /\ engine.pc = "phase" /\ engine.phase = phase_number
    /\ \E outcome \in run_phase(phase_number, engine.context) \cup {Interrupt} :
          LET stop == outcome = Interrupt \/ is_none(outcome)
          IN  engine' = [engine EXCEPT
                  !.current_phase = phase_number,
                  !.ran = Append(@, phase_number),
                  !.phase_data = IF outcome = Interrupt THEN Pending ELSE outcome,
                  !.raised = (outcome = Interrupt),
                  !.pc = IF stop THEN "returned" ELSE "merge",
                  !.result = IF stop THEN None ELSE @]
    /\ UNCHANGED <<call, template, context, value, pc, normalized, renormalized,
                   conditioned, rendered, warnings, complete, vtc, formatted,
                   aliased, threads>>

\* lines 35-40, 47-54, 61-66, 73-80, 87-92: validation, defaults when it fails,
\* cross validation for phases 2 and 4, then self.context.update
MergePhase ==
    /\ call = "conduct_interview"
    /\ engine.pc = "merge"
    /\ LET n == engine.phase
           repaired ==
               IF ~validate_phase_results(engine.phase_data, n)
               THEN apply_phase_defaults(engine.phase_data, n,
                                         IF n = 1 THEN None ELSE engine.context)
               ELSE engine.phase_data
           crossed ==
               IF n \in {2, 4} THEN cross_validate_phases(repaired, engine.context)
               ELSE repaired
       IN  engine' = [engine EXCEPT
               !.phase_data = crossed,
               !.context = update(@, crossed),
               !.merged = Append(@, n),
               !.phase = IF n < Phases THEN n + 1 ELSE n,
               !.pc = IF n < Phases THEN "phase" ELSE "final"]
    /\ UNCHANGED <<call, template, context, value, pc, normalized, renormalized,
                   conditioned, rendered, warnings, complete, vtc, formatted,
                   aliased, threads>>

\* lines 94-104: the complete context is returned; an exception of
\* normalize_context is caught at line 109 and None returned
Finish ==
    /\ call = "conduct_interview"
    /\ engine.pc = "final"
    /\ LET final_context == ensure_complete_context(engine.context)
       IN  engine' = [engine EXCEPT
               !.raised = IsRaised(final_context),
               !.completed = ~IsRaised(final_context),
               !.result = IF IsRaised(final_context) THEN None ELSE final_context,
               !.pc = "returned"]
    /\ UNCHANGED <<call, template, context, value, pc, normalized, renormalized,
                   conditioned, rendered, warnings, complete, vtc, formatted,
                   aliased, threads>>

\* the direct call: the repaired data and what validate_phase_results says of it
ApplyPhaseDefaults ==
    /\ call = "apply_phase_defaults"
    /\ engine.pc = "call"
    /\ LET repaired == apply_phase_defaults(engine.phase_data, engine.phase, engine.previous)
       IN  engine' = [engine EXCEPT
               !.repaired = repaired,
               !.valid = validate_phase_results(repaired, engine.phase),
               !.pc = "called"]
    /\ UNCHANGED <<call, template, context, value, pc, normalized, renormalized,
                   conditioned, rendered, warnings, complete, vtc, formatted,
                   aliased, threads>>

InterviewNext ==
    \/ \E phase_number \in 1..Phases : RunPhase(phase_number)
    \/ MergePhase
    \/ Finish
    \/ ApplyPhaseDefaults

InterviewSpec == InterviewInit /\ [][InterviewNext]_vars

Interviewing == call = "conduct_interview"

\* the phases 1..k in order
FirstPhases(k) == [i \in 1..k |-> i]

\* C28: conduct_interview runs the phases 1, 2, 3, 4, 5 in that order, each at
\* most once; the data of a phase is merged into the engine context only after
\* that phase returned and before the next phase runs; when a phase returns
\* None or the user interrupts it, None is returned at once: that phase is not
\* merged, no later phase runs and the context stays as it was.
C28_PhaseOrdering ==
    /\ [](Interviewing =>
            /\ engine.ran = FirstPhases(Len(engine.ran)) /\ Len(engine.ran) <= Phases
            /\ engine.merged = FirstPhases(Len(engine.merged))
            /\ Len(engine.merged) <= Len(engine.ran)
            /\ Len(engine.ran) <= Len(engine.merged) + 1
            /\ engine.current_phase = Len(engine.ran)
            /\ (Len(engine.ran) > Len(engine.merged)
                   /\ engine.phase_data \in {None, Pending}) =>
                  /\ engine.pc = "returned" /\ engine.result = None
                  /\ ~engine.completed)
    /\ [][Interviewing =>
            /\ engine.pc # "returned"
            /\ engine'.context # engine.context =>
                  /\ engine.pc = "merge"
                  /\ engine'.merged = Append(engine.merged, engine.phase)
                  /\ engine.ran[Len(engine.ran)] = engine.phase
            /\ engine'.ran # engine.ran =>
                  /\ engine'.ran = Append(engine.ran, Len(engine.merged) + 1)
                  /\ engine'.context = engine.context
            /\ engine'.result = None =>
                  /\ engine'.context = engine.context
                  /\ engine'.merged = engine.merged]_vars

\* C28 witness: the user interrupted phase 3; None was returned with phases 1
\* and 2 merged and no later phase run.
C28_Witness ==
    /\ Interviewing
    /\ engine.pc = "returned" /\ engine.result = None /\ engine.raised
    /\ engine.ran = <<1, 2, 3>>
    /\ engine.merged = <<1, 2>>
    /\ DOMAIN engine.context =
          {"project_name", "project_type", "primary_language",
           "services", "technologies", "frameworks", "ports", "architecture"}

\* C28 second case reached: phase 1 returned None, nothing merged.
C28_CancelledAtOnce ==
    /\ Interviewing
    /\ engine.pc = "returned" /\ engine.result = None /\ engine.phase_data = None
    /\ engine.ran = <<1>> /\ engine.merged = <<>> /\ engine.context = EmptyContext

\* C29 as stated: conduct_interview returns a context, and reports the
\* interview as completed, only when phase 5 reported confirmed = true; when the
\* user answers no to the confirmation of phase 5, None is returned.
C29_ReturnsOnlyConfirmed ==
    (Interviewing /\ engine.pc = "returned") =>
        /\ (engine.result # None \/ engine.completed) =>
              engine.context["confirmed"] = Bool(TRUE)
        /\ (Len(engine.merged) = Phases /\ engine.context["confirmed"] = Bool(FALSE)) =>
              engine.result = None

\* C30 as stated: for every phase n, every phase data and every previous
\* context, the data with the defaults of phase n applied passes the validation
\* of phase n; for phase 1 it has project_name, project_type and
\* primary_language present and non-empty.
C30_DefaultsRepair ==
    (call = "apply_phase_defaults" /\ engine.pc = "called") =>
        /\ engine.valid
        /\ engine.phase = 1 =>
              \A key \in {"project_name", "project_type", "primary_language"} :
                  /\ Has(engine.repaired, key)
                  /\ engine.repaired[key] \notin {None, Str("")}

====
